---- MODULE Spec2Model ----
(***************************************************************************)
(* MimikaStudio backend (src/backend/main.py): the job engine (enqueued    *)
(* Qwen3 generation, synchronous and streaming generation, audiobook       *)
(* jobs), the history ring, the model download coordinator and the voice   *)
(* store, as state machines.                                               *)
(*                                                                         *)
(* Scheduling.  Every endpoint is an `async def` without an await in its   *)
(* body, so the event loop runs one handler at a time; `loop` holds the    *)
(* continuation of the handler that currently owns the event loop.         *)
(* Background threads (threading.Thread) interleave with handlers and      *)
(* with each other at every lock boundary.                                 *)
(***************************************************************************)
EXTENDS Integers, Sequences, FiniteSets, TLC

VARIABLES
    live,          \* _live_generation_jobs: job id -> record
    history,       \* _job_history: deque, newest first
    wk,            \* running _queue_qwen3_job._worker threads: job id -> frame
    book,          \* tts.audiobook job table: job id -> job object
    next_id,       \* number of job ids handed out so far (uuid4 is fresh)
    term_order,    \* ghost: job ids in the order of their terminal transition
    snapshots,     \* models with a usable snapshot in the hub cache
    resp,          \* response of the last finished voice or model request
    loop,          \* continuation of the handler that owns the event loop
    download_status, \* _download_status: repo key -> record
    dl,            \* running model_download._do_download threads: slot -> frame
    user_wav,      \* <data>/user_voices/cloners/*.wav : name -> audio
    user_txt,      \* <data>/user_voices/cloners/*.txt : name -> transcript
    adapter_fs,    \* the adapters' own user_voices_dir: directory -> files
    rt,            \* output folder: environment, file system, settings row,
                   \* outputs_dir and the directory of the /audio mount
    adapter_call,  \* calling thread -> its call into an adapter singleton
    generate_lock, \* adapter -> thread holding its _generate_lock, 0 when free
    adapter_model, \* adapter -> whether its model object is loaded
    clone_calls,   \* clone request -> its scratch reference file and position
    scratch_files, \* the qwen3-ref-*.wav files present in outputs_dir
    qwen3_loaded,  \* whether the Qwen3 engine holds a loaded model
    next_ref,      \* scratch reference files created so far
    client_request_id, \* the x-request-id header the client sends, None without one
    output_files,  \* the generated artifacts and other files in outputs_dir
    alignment,     \* one call of _align_expected_words_to_observed: arguments and result
    jobs_view,     \* answer of the last GET /api/jobs/{job_id} or GET /api/jobs
    tmp_files      \* the files of the system's temporary directory

vars == <<live, history, wk, book, next_id, term_order, snapshots, resp, loop,
          download_status, dl, user_wav, user_txt, adapter_fs, rt,
          adapter_call, generate_lock, adapter_model,
          clone_calls, scratch_files, qwen3_loaded, next_ref, client_request_id,
          output_files, alignment, jobs_view, tmp_files>>

jobVars == <<live, history, wk, book, next_id, term_order>>
dlVars == <<download_status, dl>>
voiceVars == <<user_wav, user_txt>>
engVars == <<adapter_call, generate_lock, adapter_model>>

cloneVars == <<clone_calls, scratch_files, qwen3_loaded, next_ref>>

artVars == <<output_files, alignment, jobs_view, tmp_files>>

extVars == <<adapter_fs, rt, engVars, cloneVars, client_request_id, artVars>>

----------------------------------------------------------------------------
(* Bounds of the model *)

MaxJobs == 2          \* job ids handed out in one behaviour of SpecJobs
MaxGenJobs == 1       \* job ids handed out in one behaviour of SpecGen
MaxRingJobs == 2002   \* job ids handed out in the ring-overflow behaviours
MaxQueueJobs == 1     \* job ids handed out in one behaviour of SpecQueueFair
MaxLifeJobs == 1      \* job ids handed out in one behaviour of SpecLife
MaxDownloads == 2
MaxCallers == 2
MaxCloneCalls == 3
MaxReadJobs == 1       \* job ids handed out in one behaviour of SpecReads
MaxUploadJobs == 1     \* job ids handed out in one behaviour of SpecUploads
MaxWords == 3          \* items in each argument list of a word alignment call

(* Program constants *)

JOB_HISTORY_MAXLEN == 2000

----------------------------------------------------------------------------
(* Values *)

NULL == <<>>                      \* Python None for path/url/error fields
None == "None"                    \* Python None for Optional[str] inputs
Idle == [h |-> "idle"]

Falsy(s) == s \in {None, ""}

Min(a, b) == IF a < b THEN a ELSE b
Max(a, b) == IF a > b THEN a ELSE b

\* str.lower() on the strings at hand
Lower(name) ==
    CASE name = "Natasha" -> "natasha"
      [] name = "Suzan" -> "suzan"
      [] name = "Mine" -> "mine"
      [] name = "WAV" -> "wav"
      [] OTHER -> name

\* str.strip() on the strings at hand
Strip(str) ==
    CASE str = " " -> ""
      [] str = "hello " -> "hello"
      [] str = " ~/out " -> "~/out"
      [] OTHER -> str

TerminalStatuses == {"completed", "failed", "cancelled"}

----------------------------------------------------------------------------
(* Model registry (models/registry.py) *)

QWEN_SPEAKERS == {"Ryan", "Aiden", "Vivian", "Serena", "Uncle_Fu", "Dylan",
                  "Eric", "Ono_Anna", "Sohee"}

Qwen3Bf16Models ==
    {"Qwen3-TTS-12Hz-0.6B-Base", "Qwen3-TTS-12Hz-1.7B-Base",
     "Qwen3-TTS-12Hz-0.6B-CustomVoice", "Qwen3-TTS-12Hz-1.7B-CustomVoice"}

Qwen3EightBitModels ==
    {"Qwen3-TTS-12Hz-0.6B-Base-8bit", "Qwen3-TTS-12Hz-1.7B-Base-8bit",
     "Qwen3-TTS-12Hz-0.6B-CustomVoice-8bit", "Qwen3-TTS-12Hz-1.7B-CustomVoice-8bit"}

RegistryModels ==
    {"Kokoro", "Chatterbox Multilingual", "Supertonic-2", "CosyVoice3"}
        \cup Qwen3Bf16Models \cup Qwen3EightBitModels

\* the models a populated hub cache holds when the service starts
CachedModels == {"Kokoro", "Qwen3-TTS-12Hz-0.6B-Base",
                  "Qwen3-TTS-12Hz-0.6B-CustomVoice"}

\* ModelInfo.hf_repo of the registered models
hf_repo(m) ==
    CASE m = "Kokoro" -> "mlx-community/Kokoro-82M-bf16"
      [] m = "Chatterbox Multilingual" -> "mlx-community/chatterbox-fp16"
      [] m = "Supertonic-2" -> "Supertone/supertonic-2"
      [] m = "CosyVoice3" -> "ayousanz/cosy-voice3-onnx"
      [] m \in Qwen3Bf16Models -> "mlx-community/" \o m \o "-bf16"
      [] OTHER -> "mlx-community/" \o m

\* ModelInfo.engine
model_engine(m) ==
    CASE m = "Kokoro" -> "kokoro"
      [] m = "Chatterbox Multilingual" -> "chatterbox"
      [] m = "Supertonic-2" -> "supertonic"
      [] m = "CosyVoice3" -> "cosyvoice3"
      [] OTHER -> "qwen3"

\* cache_dir / f"models--{hf_repo.replace('/', '--')}", kept as its pieces
get_model_cache_dir(m) == "hub/models--" \o hf_repo(m)

get_downloaded_snapshot_path(m) ==
    IF m \in snapshots THEN <<get_model_cache_dir(m) \o "/snapshots/1">> ELSE NULL

\* f"Qwen3-TTS-12Hz-{model_size}-{suffix}{quant_suffix}"
qwen3_model_name_for_request(mode, model_size, quant) ==
    "Qwen3-TTS-12Hz-" \o model_size \o "-"
        \o (IF mode = "clone" THEN "Base" ELSE "CustomVoice")
        \o (IF quant = "8bit" THEN "-8bit" ELSE "")

----------------------------------------------------------------------------
(* Outcomes of a call: a return value or the exception it raises *)

Ok(path) == [kind |-> "ok", code |-> 200, detail |-> NULL, path |-> path]
Http(code, detail) == [kind |-> "http", code |-> code, detail |-> detail, path |-> NULL]
ImportErr(msg) == [kind |-> "import", code |-> 0, detail |-> <<msg>>, path |-> NULL]
Exc(msg) == [kind |-> "exc", code |-> 0, detail |-> <<msg>>, path |-> NULL]

\* what the engine call itself does once the request got that far
\* (an exception raised without arguments has the empty message)
EngineResults == {Ok(NULL), ImportErr("No module named mlx_audio"), Exc("")}

\* the cache directories the service may find when it starts
CacheAtStart == {{}, CachedModels}

\* engine_label is None for the callers that pass none
ensure_named_model_ready(model_name, engine_label) ==
    IF model_name \notin RegistryModels
    THEN Http(404, <<"Model '", model_name, "' not found">>)
    ELSE IF get_downloaded_snapshot_path(model_name) = NULL
         THEN Http(409, <<IF engine_label # None THEN engine_label ELSE model_engine(model_name),
                          " model '", model_name,
                          "' is not fully downloaded yet. Download target: ",
                          get_model_cache_dir(model_name)>>)
         ELSE Ok(get_downloaded_snapshot_path(model_name))

ensure_qwen3_model_ready(req) ==
    ensure_named_model_ready(
        qwen3_model_name_for_request(req.mode, req.model_size, req.quant), "Qwen3")

BadQuantization(req) == req.quant \notin {"bf16", "8bit"}

\* _run_qwen3_generation(request): `eng` is what the engine does when called,
\* `out` the file it writes on success
run_qwen3_generation(req, eng, out) ==
    IF BadQuantization(req)
    THEN Http(400, <<"model_quantization must be 'bf16' or '8bit'">>)
    ELSE IF ensure_qwen3_model_ready(req).kind # "ok"
    THEN ensure_qwen3_model_ready(req)
    ELSE IF req.mode = "clone"
    THEN IF Falsy(req.voice_name)
         THEN Http(400, <<"Clone mode requires voice_name">>)
         ELSE IF eng.kind = "ok" THEN Ok(out) ELSE eng
    ELSE IF req.mode = "custom"
    THEN IF Falsy(req.speaker)
         THEN Http(400, <<"Custom mode requires speaker">>)
         ELSE IF req.speaker \notin QWEN_SPEAKERS
         THEN Http(400, <<"Unknown speaker: ", req.speaker, ". Available: ", "list(QWEN_SPEAKERS)">>)
         ELSE IF eng.kind = "ok" THEN Ok(out) ELSE eng
    ELSE Http(400, <<"Unknown mode: ", req.mode, ". Use 'clone' or 'custom'">>)

----------------------------------------------------------------------------
(* Dictionaries: Python dicts are functions with a finite domain *)

EmptyMap == [k \in {} |-> NULL]
Put(m, k, v) == [x \in DOMAIN m \cup {k} |-> IF x = k THEN v ELSE m[x]]
Del(m, k) == [x \in DOMAIN m \ {k} |-> m[x]]
Get(d, f) == IF f \in DOMAIN d THEN d[f] ELSE NULL          \* dict.get(f)
Update(d, u) == [f \in DOMAIN d \cup DOMAIN u |-> IF f \in DOMAIN u THEN u[f] ELSE d[f]]

\* str(x) of a message kept as its pieces is empty iff every piece is
StrEmpty(t) == \A i \in DOMAIN t : t[i] = ""

OutFile(n) == <<"outputs/", "qwen3-" \o ToString(n) \o ".wav">>
AudioUrl(path) == IF path = NULL THEN NULL ELSE <<"/audio/", path[2]>>
StrPath(path) == <<path[1] \o path[2]>>                      \* str(output_path)

----------------------------------------------------------------------------
(* Job bookkeeping (main.py 371-449) *)

RecordJobHistoryEntry_Unbounded(h, entry) == <<entry>> \o h

\* _job_history.appendleft(entry) on deque(maxlen=2000)
RecordJobHistoryEntry(h, entry) ==
    SubSeq(<<entry>> \o h, 1, Min(Len(h) + 1, JOB_HISTORY_MAXLEN))

\* _upsert_live_generation_job(job_id, base, **updates): the new live map
UpsertLive(l, job_id, base, updates) ==
    LET found == IF job_id \in DOMAIN l THEN l[job_id] ELSE <<>>
        current == IF DOMAIN found = {} /\ DOMAIN base # {} THEN base ELSE found
    IN  Put(l, job_id, Update(Update(current, updates), [id |-> job_id]))

\* _pop_live_generation_job
PopLive(l, job_id) == Del(l, job_id)

JobType(mode, streamed, job_type) ==
    LET resolved == IF job_type # None THEN job_type
                    ELSE IF mode = "clone" THEN "voice_clone" ELSE "tts"
    IN  IF streamed /\ resolved = "tts" THEN "tts_stream" ELSE resolved

\* the entry _record_job_event builds
JobEvent(job_id, mode, status, output_path, streamed, job_type) ==
    [id |-> job_id,
     type |-> JobType(mode, streamed, job_type),
     status |-> status,
     output_path |-> IF output_path = NULL THEN NULL ELSE StrPath(output_path),
     audio_url |-> AudioUrl(output_path)]

\* _log_generation_event: always records status "completed"
LogGenerationEvent(h, job_id, mode, output_path, streamed) ==
    RecordJobHistoryEntry(h, JobEvent(job_id, mode, "completed", output_path, streamed, None))

----------------------------------------------------------------------------
(* Requests *)

Qwen3Requests ==
    [mode : {"clone"}, voice_name : {None, "Natasha"}, speaker : {None},
     model_size : {"0.6B"}, quant : {"bf16"}]
    \cup [mode : {"clone"}, voice_name : {"Natasha"}, speaker : {None},
          model_size : {"0.6B"}, quant : {"8bit", "4bit"}]
    \cup [mode : {"clone"}, voice_name : {"Natasha"}, speaker : {None},
          model_size : {"9B"}, quant : {"bf16"}]
    \cup [mode : {"custom"}, voice_name : {None}, speaker : {None, "Ryan", "Bob"},
          model_size : {"0.6B"}, quant : {"bf16"}]
    \cup [mode : {"custom"}, voice_name : {None}, speaker : {"Ryan"},
          model_size : {"0.6B"}, quant : {"8bit", "4bit"}]
    \cup [mode : {"design"}, voice_name : {None}, speaker : {None},
          model_size : {"0.6B"}, quant : {"bf16"}]

\* the HTTP status a handler's outcome becomes (main.py 2189-2197, 311-321)
StatusCode(out) ==
    CASE out.kind = "ok" -> 200
      [] out.kind = "http" -> out.code
      [] out.kind = "import" -> 503
      [] OTHER -> 500

\* the engine is only called by a request that passed every check before it
EngineChoices(req) ==
    IF run_qwen3_generation(req, Ok(NULL), NULL).kind = "ok" THEN EngineResults ELSE {Ok(NULL)}

LoopIdle == loop = Idle

\* the response the client sees; `observe` is FALSE in the behaviours that
\* follow the jobs and do not look at the responses
\* the "error" member of the JSON body: http_exception_handler answers an
\* HTTPException, request_context_middleware answers every other exception
\* that leaves a handler
ErrorKind(out) ==
    CASE out.kind = "ok" -> None
      [] out.kind \in {"http", "import"} -> "http_error"
      [] OTHER -> "internal_server_error"

ErrorDetail(out) ==
    IF out.kind = "exc" THEN <<"Internal server error">> ELSE out.detail

\* request.headers.get("x-request-id", str(uuid.uuid4())[:12])
RequestId == IF client_request_id = None THEN "uuid4()[:12]" ELSE client_request_id

\* the X-Request-ID header of the response: the middleware sets it on the
\* response call_next returned, and returns its own 500 response as it is
XRequestIdHeader(out) == IF out.kind = "exc" THEN None ELSE RequestId

\* the request_id member of an error body
EnvelopeRequestId(out) == IF out.kind = "ok" THEN None ELSE RequestId

Response(endpoint, out, job_id) ==
    [endpoint |-> endpoint, code |-> StatusCode(out), error |-> ErrorKind(out),
     detail |-> ErrorDetail(out), job_id |-> job_id,
     x_request_id |-> XRequestIdHeader(out), request_id |-> EnvelopeRequestId(out)]
NoResponse ==
    [endpoint |-> "", code |-> 0, error |-> None, detail |-> NULL, job_id |-> 0,
     x_request_id |-> None, request_id |-> None]
Respond(observe, endpoint, out, job_id) ==
    resp' = IF observe THEN Response(endpoint, out, job_id) ELSE resp

----------------------------------------------------------------------------
(* POST /api/qwen3/generate, synchronous (main.py 2161-2197) *)

\* the except clauses of qwen3_generate and qwen3_generate_stream
qwen3_http_error(out) ==
    CASE out.kind = "import" ->
            Http(503, <<"Qwen3-TTS backend unavailable. Run: pip install -U mlx-audio. Error: ">>
                      \o out.detail)
      [] out.kind = "exc" -> Http(500, out.detail)
      [] OTHER -> out

Qwen3GenerateSync(req, eng, bound, observe) ==
    /\ LoopIdle
    /\ LET out == run_qwen3_generation(req, eng, OutFile(next_id + 1))
       IN  /\ IF out.kind = "ok"
              THEN /\ next_id < bound
                   /\ next_id' = next_id + 1
                   /\ history' = LogGenerationEvent(history, next_id + 1, req.mode, out.path, FALSE)
              ELSE UNCHANGED <<next_id, history>>
           /\ Respond(observe, "qwen3/generate", qwen3_http_error(out), 0)
    /\ UNCHANGED <<live, wk, book, term_order, snapshots, loop, dlVars, voiceVars, extVars>>

(* POST /api/qwen3/generate with enqueue=true: _queue_qwen3_job (1991-2040, 2157-2159) *)

BaseJob(job_id, req) ==
    [id |-> job_id,
     type |-> IF req.mode = "clone" THEN "voice_clone" ELSE "tts",
     status |-> "started",
     output_path |-> NULL,
     audio_url |-> NULL]

QueueValidation_NoReadiness(req) ==
    IF BadQuantization(req)
    THEN Http(400, <<"model_quantization must be 'bf16' or '8bit'">>)
    ELSE Ok(NULL)

\* what _queue_qwen3_job checks before it allocates the job
QueueValidation(req) ==
    IF BadQuantization(req)
    THEN Http(400, <<"model_quantization must be 'bf16' or '8bit'">>)
    ELSE IF ensure_qwen3_model_ready(req).kind # "ok"
    THEN ensure_qwen3_model_ready(req)
    ELSE Ok(NULL)

QueueQwen3Job(req, bound, observe) ==
    /\ LoopIdle
    /\ IF QueueValidation(req).kind = "ok"
       THEN /\ next_id < bound
            /\ next_id' = next_id + 1
            /\ live' = UpsertLive(live, next_id + 1, BaseJob(next_id + 1, req), <<>>)
            /\ wk' = Put(wk, next_id + 1, [pc |-> "start", payload |-> req])
            /\ Respond(observe, "qwen3/generate?enqueue", Ok(NULL), next_id + 1)
       ELSE /\ UNCHANGED <<next_id, live, wk>>
            /\ Respond(observe, "qwen3/generate?enqueue", QueueValidation(req), 0)
    /\ UNCHANGED <<history, book, term_order, snapshots, loop, dlVars, voiceVars, extVars>>

(* _queue_qwen3_job._worker (2042-2155), one action per lock acquisition *)

WorkerProcessing(j) ==
    /\ j \in DOMAIN wk /\ wk[j].pc = "start"
    /\ live' = UpsertLive(live, j, <<>>, [status |-> "processing"])
    /\ wk' = Put(wk, j, [wk[j] EXCEPT !.pc = "run"])
    /\ UNCHANGED <<history, book, next_id, term_order, snapshots, resp, loop, dlVars, voiceVars, extVars>>

TerminalUpdates_Unhandled(out) ==
    IF out.kind = "ok"
    THEN [status |-> "completed", output_path |-> StrPath(out.path),
          audio_url |-> AudioUrl(out.path)]
    ELSE [status |-> "processing"]

\* the keyword arguments of the terminal upsert, per try/except branch
TerminalUpdates(out) ==
    CASE out.kind = "ok" ->
            [status |-> "completed", output_path |-> StrPath(out.path),
             audio_url |-> AudioUrl(out.path)]
      [] out.kind = "http" ->
            [status |-> "failed", error |-> out.detail]
      [] out.kind = "import" ->
            [status |-> "failed",
             error |-> <<"Qwen3-TTS backend unavailable. Run: pip install -U mlx-audio. Error: ">>
                       \o out.detail]
      [] OTHER ->
            [status |-> "failed", error |-> out.detail]

\* _run_qwen3_generation(queued_request) returns or raises, and the branch taken
\* makes the terminal upsert
WorkerUpsertTerminal(j, eng) ==
    /\ j \in DOMAIN wk /\ wk[j].pc = "run"
    /\ LET out == run_qwen3_generation(wk[j].payload, eng, OutFile(j))
       IN  /\ live' = UpsertLive(live, j, <<>>, TerminalUpdates(out))
           /\ wk' = Put(wk, j, [pc |-> "rec", rec |-> live'[j]])
    /\ term_order' = Append(term_order, j)
    /\ UNCHANGED <<history, book, next_id, snapshots, resp, loop, dlVars, voiceVars, extVars>>

WorkerRecordHistory_AsCompleted(j) ==
    /\ j \in DOMAIN wk /\ wk[j].pc = "rec"
    /\ history' = RecordJobHistoryEntry(history, [wk[j].rec EXCEPT !.status = "completed"])
    /\ wk' = Put(wk, j, [pc |-> "pop"])
    /\ UNCHANGED <<live, book, next_id, term_order, snapshots, resp, loop, dlVars, voiceVars, extVars>>

\* _record_job_history_entry(completed | failed)
WorkerRecordHistory(j) ==
    /\ j \in DOMAIN wk /\ wk[j].pc = "rec"
    /\ history' = RecordJobHistoryEntry(history, wk[j].rec)
    /\ wk' = Put(wk, j, [pc |-> "pop"])
    /\ UNCHANGED <<live, book, next_id, term_order, snapshots, resp, loop, dlVars, voiceVars, extVars>>

\* finally: _pop_live_generation_job(job_id); the thread ends
WorkerPop(j) ==
    /\ j \in DOMAIN wk /\ wk[j].pc = "pop"
    /\ live' = PopLive(live, j)
    /\ wk' = Del(wk, j)
    /\ UNCHANGED <<history, book, next_id, term_order, snapshots, resp, loop, dlVars, voiceVars, extVars>>

----------------------------------------------------------------------------
(* POST /api/qwen3/generate/stream (main.py 2200-2351) *)

\* the checks of the streaming handler up to the creation of the lazy iterator;
\* `eng` is what get_qwen3_engine does (the iterator itself runs later)
qwen3_stream_prepare(req, eng) ==
    IF BadQuantization(req)
    THEN Http(400, <<"model_quantization must be 'bf16' or '8bit'">>)
    ELSE IF ensure_qwen3_model_ready(req).kind # "ok"
    THEN ensure_qwen3_model_ready(req)
    ELSE IF req.mode = "clone"
    THEN IF Falsy(req.voice_name)
         THEN Http(400, <<"Clone mode requires voice_name">>)
         ELSE IF eng.kind = "import" THEN eng ELSE Ok(NULL)
    ELSE IF req.mode = "custom"
    THEN IF Falsy(req.speaker)
         THEN Http(400, <<"Custom mode requires speaker">>)
         ELSE IF req.speaker \notin QWEN_SPEAKERS
         THEN Http(400, <<"Unknown speaker: ", req.speaker, ". Available: ", "list(QWEN_SPEAKERS)">>)
         ELSE IF eng.kind = "import" THEN eng ELSE Ok(NULL)
    ELSE Http(400, <<"Unknown mode: ", req.mode, ". Use 'clone' or 'custom'">>)

Qwen3GenerateStream(req, eng, bound, observe) ==
    /\ LoopIdle
    /\ IF qwen3_stream_prepare(req, eng).kind = "ok"
       THEN /\ next_id < bound
            /\ next_id' = next_id + 1
            \* _log_generation_event(..., streamed=True), no output_path argument
            /\ history' = LogGenerationEvent(history, next_id + 1, req.mode, NULL, TRUE)
       ELSE UNCHANGED <<next_id, history>>
    /\ Respond(observe, "qwen3/generate/stream", qwen3_http_error(qwen3_stream_prepare(req, eng)), 0)
    /\ UNCHANGED <<live, wk, book, term_order, snapshots, loop, dlVars, voiceVars, extVars>>

(* POST /api/{kokoro,supertonic,cosyvoice3,chatterbox}/generate
   (main.py 1572-1621, 1689-1733, 1784-1832, 2611-2672) *)

RegistryEngines == {"kokoro", "supertonic", "cosyvoice3", "chatterbox"}

EngineModel(e) ==
    CASE e = "kokoro" -> "Kokoro"
      [] e = "supertonic" -> "Supertonic-2"
      [] e = "cosyvoice3" -> "CosyVoice3"
      [] e = "chatterbox" -> "Chatterbox Multilingual"

EngineLabel(e) ==
    CASE e = "kokoro" -> "Kokoro"
      [] e = "supertonic" -> "Supertonic"
      [] e = "cosyvoice3" -> "CosyVoice3"
      [] e = "chatterbox" -> "Chatterbox"

EngineMode(e) == IF e = "chatterbox" THEN "clone" ELSE "tts"

EngineOutFile(e, n) == <<"outputs/", e \o "-" \o ToString(n) \o ".wav">>

engine_generate(e, eng, out) ==
    IF ensure_named_model_ready(EngineModel(e), EngineLabel(e)).kind # "ok"
    THEN ensure_named_model_ready(EngineModel(e), EngineLabel(e))
    ELSE IF eng.kind = "ok" THEN Ok(out) ELSE eng

EngineChoicesFor(e) ==
    IF engine_generate(e, Ok(NULL), NULL).kind = "ok" THEN EngineResults ELSE {Ok(NULL)}

EngineGenerate(e, eng, bound, observe) ==
    /\ LoopIdle
    /\ LET out == engine_generate(e, eng, EngineOutFile(e, next_id + 1))
       IN  /\ IF out.kind = "ok"
              THEN /\ next_id < bound
                   /\ next_id' = next_id + 1
                   /\ history' = LogGenerationEvent(history, next_id + 1, EngineMode(e), out.path, FALSE)
              ELSE UNCHANGED <<next_id, history>>
           /\ Respond(observe, e \o "/generate", out, 0)
    /\ UNCHANGED <<live, wk, book, term_order, snapshots, loop, dlVars, voiceVars, extVars>>

----------------------------------------------------------------------------
(* POST /api/audiobook/generate (main.py 3349-3438) and the audiobook job the
   handler creates. tts/audiobook.py is not part of the sources at hand: the
   job object and its thread follow the description in spec.md (sections 3
   and 4.6). *)

AudiobookRequests ==
    {[text |-> "Chapter one", output_format |-> "WAV", subtitle_format |-> "none",
      max_chars_per_chunk |-> 1500, crossfade_ms |-> 40],
     [text |-> " ", output_format |-> "wav", subtitle_format |-> "none",
      max_chars_per_chunk |-> 1500, crossfade_ms |-> 40],
     [text |-> "Chapter one", output_format |-> "ogg", subtitle_format |-> "none",
      max_chars_per_chunk |-> 1500, crossfade_ms |-> 40],
     [text |-> "Chapter one", output_format |-> "wav", subtitle_format |-> "ass",
      max_chars_per_chunk |-> 1500, crossfade_ms |-> 40],
     [text |-> "Chapter one", output_format |-> "wav", subtitle_format |-> "none",
      max_chars_per_chunk |-> 0, crossfade_ms |-> 40],
     [text |-> "Chapter one", output_format |-> "wav", subtitle_format |-> "none",
      max_chars_per_chunk |-> 1500, crossfade_ms |-> -1]}

audiobook_validate(req) ==
    IF Strip(req.text) = ""
    THEN Http(400, <<"Text cannot be empty">>)
    ELSE IF Lower(req.output_format) \notin {"wav", "mp3", "m4b"}
    THEN Http(400, <<"Invalid output_format: ", req.output_format, ". Use 'wav', 'mp3', or 'm4b'">>)
    ELSE IF Lower(req.subtitle_format) \notin {"none", "srt", "vtt"}
    THEN Http(400, <<"Invalid subtitle_format: ", req.subtitle_format, ". Use 'none', 'srt', or 'vtt'">>)
    ELSE IF req.max_chars_per_chunk <= 0
    THEN Http(400, <<"max_chars_per_chunk must be > 0">>)
    ELSE IF req.crossfade_ms < 0
    THEN Http(400, <<"crossfade_ms must be >= 0">>)
    ELSE Ok(NULL)

create_audiobook_job(job_id) == [status |-> "started", audio_path |-> NULL, cancel |-> FALSE]

BookOutFile(n) == <<"outputs/", "audiobook-" \o ToString(n) \o ".wav">>

AudiobookGenerate(req, bound, observe) ==
    /\ LoopIdle
    /\ IF audiobook_validate(req).kind = "ok"
       THEN /\ next_id < bound
            /\ next_id' = next_id + 1
            /\ book' = Put(book, next_id + 1, create_audiobook_job(next_id + 1))
            \* _record_job_event(status=job.status.value, job_type="audiobook", job_id=job.job_id)
            /\ history' = RecordJobHistoryEntry(history,
                              JobEvent(next_id + 1, "audiobook", book'[next_id + 1].status,
                                       NULL, FALSE, "audiobook"))
            /\ Respond(observe, "audiobook/generate", Ok(NULL), next_id + 1)
       ELSE /\ UNCHANGED <<next_id, book, history>>
            /\ Respond(observe, "audiobook/generate", audiobook_validate(req), 0)
    /\ UNCHANGED <<live, wk, term_order, snapshots, loop, dlVars, voiceVars, extVars>>

\* the audiobook thread: started -> processing -> completed | failed | cancelled
BookProcess(j) ==
    /\ j \in DOMAIN book /\ book[j].status = "started"
    /\ book' = Put(book, j, [book[j] EXCEPT !.status = "processing"])
    /\ UNCHANGED <<live, history, wk, next_id, term_order, snapshots, resp, loop, dlVars, voiceVars, extVars>>

BookFinish(j, ok) ==
    /\ j \in DOMAIN book /\ book[j].status = "processing"
    /\ book' = Put(book, j,
                   IF book[j].cancel
                   THEN [book[j] EXCEPT !.status = "cancelled"]
                   ELSE IF ok
                   THEN [book[j] EXCEPT !.status = "completed", !.audio_path = BookOutFile(j)]
                   ELSE [book[j] EXCEPT !.status = "failed"])
    /\ UNCHANGED <<live, history, wk, next_id, term_order, snapshots, resp, loop, dlVars, voiceVars, extVars>>

\* POST /api/audiobook/cancel/{job_id} (main.py 3602-3634)
AudiobookCancel(j) ==
    /\ LoopIdle
    /\ j \in DOMAIN book /\ book[j].status \notin TerminalStatuses /\ ~book[j].cancel
    /\ book' = Put(book, j, [book[j] EXCEPT !.cancel = TRUE])
    /\ UNCHANGED <<live, history, wk, next_id, term_order, snapshots, resp, loop, dlVars, voiceVars, extVars>>

----------------------------------------------------------------------------

\* Qwen3TTSEngine.__init__ and ChatterboxEngine.__init__: self.user_voices_dir
user_voices_dir(adapter) ==
    CASE adapter = "qwen3" -> "data/user_voices/qwen3"
      [] adapter = "chatterbox" -> "data/user_voices/chatterbox"

\* CLONER_USER_VOICES_DIR of main.py: <runtime data>/user_voices/cloners
CLONER_USER_VOICES_DIR == "runtime-data/user_voices/cloners"

Adapters == {"qwen3", "chatterbox"}

\* the user folders of the adapters that are not the folder of main.py
AdapterDirs == {user_voices_dir(a) : a \in Adapters} \ {CLONER_USER_VOICES_DIR}

\* the adapter singletons and the threads that call into them
Singletons == {"kokoro", "supertonic", "cosyvoice3", "chatterbox"}
LockedAdapters == {"kokoro", "supertonic", "cosyvoice3"}
Callers == 1..MaxCallers

\* the output folder of a running service that started without an override
\* and without a stored setting
MimikaHome == "/home/u/MimikaStudio"
TmpHome == "/tmp/mimikastudio"
HomeOutputs == "/home/u/MimikaStudio/outputs"
TmpOutputs == "/tmp/mimikastudio-outputs"
OutputDirs ==
    {"/env/out", "/cfg/out", MimikaHome, HomeOutputs, TmpHome,
     "/tmp/mimikastudio/outputs", TmpOutputs, "/home/u/out"}

DefaultRuntime ==
    [phase |-> "running", env |-> None, creatable |-> OutputDirs,
     runtime_home |-> MimikaHome,
     dirs |-> {MimikaHome, HomeOutputs}, setting |-> None,
     outputs_dir |-> HomeOutputs, static_dir |-> HomeOutputs]

\* no job read was answered
NoJobsView == [endpoint |-> "", code |-> 0, job_id |-> 0, ids |-> <<>>]

\* no word alignment call was made
NoAlignment == [expected_tokens |-> <<>>, observed_words |-> <<>>, starts_ms |-> <<>>, pc |-> "idle"]

InitBase(caches) ==
    /\ live = EmptyMap
    /\ history = <<>>
    /\ wk = EmptyMap
    /\ book = EmptyMap
    /\ next_id = 0
    /\ term_order = <<>>
    /\ snapshots \in caches
    /\ resp = NoResponse
    /\ loop = Idle
    /\ download_status = EmptyMap
    /\ dl = EmptyMap
    /\ user_wav = EmptyMap
    /\ user_txt = EmptyMap
    /\ adapter_fs = [d \in AdapterDirs |-> [wav |-> EmptyMap, txt |-> EmptyMap]]
    /\ adapter_call = [t \in Callers |-> NULL]
    /\ generate_lock = [a \in LockedAdapters |-> 0]
    /\ adapter_model = [a \in Singletons |-> FALSE]
    /\ clone_calls = EmptyMap
    /\ scratch_files = {}
    /\ qwen3_loaded = FALSE
    /\ next_ref = 0

InitWith(caches) ==
    /\ InitBase(caches) /\ rt = DefaultRuntime /\ client_request_id = None
    /\ output_files = {}
    /\ alignment = NoAlignment
    /\ jobs_view = NoJobsView
    /\ tmp_files = {}

Init == InitWith(CacheAtStart)

\* the requests whose models exist in the registry and whose quantization is valid
JobRequests ==
    {r \in Qwen3Requests : r.model_size = "0.6B" /\ r.quant = "bf16"
                           /\ (r.mode = "clone" \/ r.speaker = "Ryan")}

\* the steps of the worker threads that exist
WorkerNext ==
    \/ \E j \in DOMAIN wk : WorkerProcessing(j)
    \/ \E j \in DOMAIN wk :
          /\ wk[j].pc = "run"
          /\ \E eng \in EngineChoices(wk[j].payload) : WorkerUpsertTerminal(j, eng)
    \/ \E j \in DOMAIN wk : WorkerRecordHistory(j)
    \/ \E j \in DOMAIN wk : WorkerPop(j)

JobsNext(reqs, engines, bound, observe) ==
    \/ \E req \in reqs : \E eng \in EngineChoices(req) : Qwen3GenerateSync(req, eng, bound, observe)
    \/ \E req \in reqs : QueueQwen3Job(req, bound, observe)
    \/ WorkerNext
    \/ \E req \in reqs : \E eng \in EngineChoices(req) : Qwen3GenerateStream(req, eng, bound, observe)
    \/ \E e \in engines : \E eng \in EngineChoicesFor(e) : EngineGenerate(e, eng, bound, observe)
    \/ \E req \in AudiobookRequests : AudiobookGenerate(req, bound, observe)
    \/ \E j \in DOMAIN book : BookProcess(j)
    \/ \E j \in DOMAIN book : \E ok \in BOOLEAN : BookFinish(j, ok)
    \/ \E j \in DOMAIN book : AudiobookCancel(j)

\* the jobs, their workers and the history ring
NextJobs == JobsNext(JobRequests, {"kokoro"}, MaxJobs, FALSE)

SpecJobs == Init /\ [][NextJobs]_vars

\* a cache that holds the clone model and lacks the others
PartialCaches == {{}, {"Kokoro", "Qwen3-TTS-12Hz-0.6B-Base"}}

InitGen == InitWith(PartialCaches)

\* one request shape for each way a generate handler can answer under InitGen
GenRequests ==
    {r \in Qwen3Requests : r.mode = "custom" => (r.quant = "bf16" /\ r.speaker = "Ryan")}

\* every request shape against every generate endpoint, responses observed
NextGen ==
    \/ \E req \in GenRequests : \E eng \in EngineChoices(req) :
          Qwen3GenerateSync(req, eng, MaxGenJobs, TRUE)
    \/ \E req \in GenRequests : QueueQwen3Job(req, MaxGenJobs, TRUE)
    \/ WorkerNext
    \/ \E req \in GenRequests : \E eng \in EngineChoices(req) :
          Qwen3GenerateStream(req, eng, MaxGenJobs, TRUE)
    \/ \E e \in RegistryEngines : \E eng \in EngineChoicesFor(e) :
          EngineGenerate(e, eng, MaxGenJobs, TRUE)

SpecGen == InitGen /\ [][NextGen]_vars

----------------------------------------------------------------------------
(* GET /api/jobs/{job_id} (main.py 3250-3273, 3309-3331) *)

audiobook_job_to_history_item(j) ==
    [id |-> j,
     type |-> "audiobook",
     status |-> book[j].status,
     output_path |-> IF book[j].audio_path = NULL THEN NULL ELSE StrPath(book[j].audio_path),
     audio_url |-> AudioUrl(book[j].audio_path)]

HistoryIndexes(job_id) == {i \in 1..Len(history) : history[i].id = job_id}

\* the live queue first, the history second, the audiobook jobs third; NULL is the 404
jobs_get(job_id) ==
    IF job_id \in DOMAIN live
    THEN live[job_id]
    ELSE IF HistoryIndexes(job_id) # {}
    THEN history[CHOOSE i \in HistoryIndexes(job_id) : \A k \in HistoryIndexes(job_id) : i <= k]
    ELSE IF job_id \in DOMAIN book
    THEN audiobook_job_to_history_item(job_id)
    ELSE NULL

----------------------------------------------------------------------------
(* Properties of the job records *)

StatusOf(rec) == IF "status" \in DOMAIN rec THEN rec.status ELSE ""

IsTerminal(rec) == StatusOf(rec) \in TerminalStatuses

HasOutput(rec) == Get(rec, "output_path") # NULL /\ Get(rec, "audio_url") # NULL

\* C2: every job record with status "completed", in the live set, in the
\* history ring or in the audiobook jobs, has a non-null output_path and audio_url.
C2_CompletedHasOutput ==
    /\ \A j \in DOMAIN live : StatusOf(live[j]) = "completed" => HasOutput(live[j])
    /\ \A i \in 1..Len(history) : StatusOf(history[i]) = "completed" => HasOutput(history[i])
    /\ \A j \in DOMAIN book :
          book[j].status = "completed" => HasOutput(audiobook_job_to_history_item(j))

\* C3: the history ring holds only jobs in a terminal status, whatever their kind.
C3_HistoryOnlyTerminal ==
    \A i \in 1..Len(history) : IsTerminal(history[i])

\* the jobs that have a life cycle, enqueued generations and audiobooks,
\* with the answers observed
NextLife ==
    \/ \E req \in JobRequests : QueueQwen3Job(req, MaxLifeJobs, TRUE)
    \/ WorkerNext
    \/ \E req \in AudiobookRequests : AudiobookGenerate(req, MaxLifeJobs, TRUE)
    \/ \E j \in DOMAIN book : BookProcess(j)
    \/ \E j \in DOMAIN book : \E ok \in BOOLEAN : BookFinish(j, ok)
    \/ \E j \in DOMAIN book : AudiobookCancel(j)

SpecLife == Init /\ [][NextLife]_vars

\* the status changes a job record may make
StatusSteps ==
    {<<"", "started">>, <<"", "completed">>,
     <<"started", "processing">>,
     <<"processing", "completed">>, <<"processing", "failed">>,
     <<"processing", "cancelled">>}

SameRecord(a, b) == DOMAIN a = DOMAIN b /\ \A f \in DOMAIN a : a[f] = b[f]

JobIds == 1..Max(MaxJobs, Max(MaxQueueJobs, MaxLifeJobs))

\* C4: once the record of a job is terminal no step changes any of its
\* fields, and a status only advances started -> processing -> terminal; the
\* record is the one GET /api/jobs/{job_id} returns, and, for an audiobook,
\* the job object as well.
C4_TerminalMonotonic ==
    [][\A j \in JobIds :
          /\ IsTerminal(jobs_get(j)) => SameRecord(jobs_get(j)', jobs_get(j))
          /\ StatusOf(jobs_get(j)') # StatusOf(jobs_get(j))
                => <<StatusOf(jobs_get(j)), StatusOf(jobs_get(j)')>> \in StatusSteps
          /\ j \in DOMAIN book
                => /\ j \in DOMAIN book'
                   /\ book[j].status \in TerminalStatuses => book'[j] = book[j]
                   /\ book'[j].status # book[j].status
                         => <<book[j].status, book'[j].status>> \in StatusSteps]_vars

\* a failed enqueued job whose worker is gone and whose record left the live
\* set: it is served from the history ring
C4_Witness ==
    \E j \in JobIds :
       /\ j \notin DOMAIN live /\ j \notin DOMAIN wk /\ j \notin DOMAIN book
       /\ StatusOf(jobs_get(j)) = "failed"

SyncRejects400(req) ==
    /\ run_qwen3_generation(req, Ok(NULL), NULL).kind = "http"
    /\ run_qwen3_generation(req, Ok(NULL), NULL).code = 400

\* C5: a request the synchronous path rejects with 400 is rejected with the
\* same 400 by the enqueue path, which allocates no job id and creates no
\* live-set entry and no worker for it.
C5_EnqueueValidatesEagerly ==
    [][\A req \in Qwen3Requests :
          (SyncRejects400(req) /\ QueueQwen3Job(req, MaxGenJobs, TRUE))
             => /\ resp'.code = 400
                /\ resp'.detail = run_qwen3_generation(req, Ok(NULL), NULL).detail
                /\ UNCHANGED <<next_id, live, wk>>]_vars

ModelOfRequest(req) == qwen3_model_name_for_request(req.mode, req.model_size, req.quant)

LacksSnapshot(m) == m \in RegistryModels /\ get_downloaded_snapshot_path(m) = NULL

\* the request reaches the readiness check of a registered model without a snapshot
Qwen3ModelNotReady(req) == ~BadQuantization(req) /\ LacksSnapshot(ModelOfRequest(req))

Is409With(r, m) ==
    /\ r.code = 409
    /\ \E i \in DOMAIN r.detail : r.detail[i] = get_model_cache_dir(m)

\* the answer of the step is the 409 about model m and the jobs are untouched
NotReady409(m) == Is409With(resp', m) /\ UNCHANGED <<live, history, wk, next_id>>

----------------------------------------------------------------------------
(* The enqueued jobs alone, under a fair scheduler: as long as some worker
   thread can take a step, one of them does, and the generation call returns
   or raises. *)

NextQueue ==
    \/ \E req \in Qwen3Requests : QueueQwen3Job(req, MaxQueueJobs, TRUE)
    \/ WorkerNext

WorkerFairness == WF_vars(WorkerNext)

SpecQueueFair == InitGen /\ [][NextQueue]_vars /\ WorkerFairness

\* the message t ends with the pieces of suffix
EndsWith(t, suffix) ==
    /\ Len(t) >= Len(suffix)
    /\ SubSeq(t, Len(t) - Len(suffix) + 1, Len(t)) = suffix

\* C7 as stated: the record of a failed job carries a non-empty error, that of
\* a completed job an audio_url.
C7_FailedHasNonEmptyError ==
    \A j \in JobIds :
       /\ StatusOf(jobs_get(j)) = "failed" => ~StrEmpty(Get(jobs_get(j), "error"))
       /\ StatusOf(jobs_get(j)) = "completed" => Get(jobs_get(j), "audio_url") # NULL

\* C7: every enqueued job eventually shows a terminal status through
\* GET /api/jobs/{job_id} and its worker ends; the terminal step writes
\* "completed" with the audio_url when the generation returned, and "failed"
\* with the message of the exception (which may be empty) when it raised.
C7_EnqueuedJobTerminates ==
    /\ \A j \in JobIds :
          (j \in DOMAIN wk) ~> (j \notin DOMAIN wk /\ IsTerminal(jobs_get(j)))
    /\ [][\A j \in DOMAIN wk :
             wk[j].pc = "run"
                => \A eng \in EngineChoices(wk[j].payload) :
                      WorkerUpsertTerminal(j, eng)
                         => LET out == run_qwen3_generation(wk[j].payload, eng, OutFile(j))
                            IN  IF out.kind = "ok"
                                THEN /\ StatusOf(jobs_get(j)') = "completed"
                                     /\ Get(jobs_get(j)', "audio_url") # NULL
                                ELSE /\ StatusOf(jobs_get(j)') = "failed"
                                     /\ "error" \in DOMAIN jobs_get(j)'
                                     /\ EndsWith(jobs_get(j)'.error, out.detail)]_vars

\* a job whose worker ended after it failed with the empty message
C7_Witness ==
    \E j \in JobIds :
       /\ j \notin DOMAIN wk /\ j \notin DOMAIN live
       /\ StatusOf(jobs_get(j)) = "failed"
       /\ "error" \in DOMAIN jobs_get(j)
       /\ StrEmpty(jobs_get(j).error)

Position(seq, x) == CHOOSE i \in 1..Len(seq) : seq[i] = x

TerminatedJobs == {term_order[i] : i \in 1..Len(term_order)}

\* C8: the entries of the history ring were inserted in the order in which
\* their jobs became terminal: of two entries the one nearer the front belongs
\* to the job that became terminal later.
C8_HistoryOrderIsTerminalOrder ==
    \A a, b \in 1..Len(history) :
       (a < b /\ history[a].id \in TerminatedJobs /\ history[b].id \in TerminatedJobs)
          => Position(term_order, history[a].id) > Position(term_order, history[b].id)

----------------------------------------------------------------------------
(* The history ring under more terminal jobs than it holds (main.py 371-379)
   and GET /api/jobs (main.py 3276-3306) *)

JOBS_LIST_MAX_LIMIT == 1000

RingRequest ==
    [mode |-> "custom", voice_name |-> None, speaker |-> "Ryan",
     model_size |-> "0.6B", quant |-> "bf16"]

NextRing == Qwen3GenerateSync(RingRequest, Ok(NULL), MaxRingJobs, FALSE)

SpecRing == Init /\ [][NextRing]_vars

\* the ids left after the merge of the audiobook jobs, the live jobs and the
\* history, one item per id
jobs_list_ids ==
    DOMAIN book \cup DOMAIN live \cup {history[i].id : i \in 1..Len(history)}

\* len(sorted_items[:safe_limit])
jobs_list_count(limit) ==
    Min(Cardinality(jobs_list_ids), Max(1, Min(limit, JOBS_LIST_MAX_LIMIT)))

JobsListLimits == {-1, 0, 1, 200, 1000, 1001, 5000}

\* C9: the ring never holds more than 2000 entries; they are the entries of
\* the most recent jobs, the newest at the front; GET /api/jobs returns, for
\* every limit, at most 2000 items beyond the live ones.
C9_RingBounded ==
    /\ Len(history) = Min(next_id, JOB_HISTORY_MAXLEN)
    /\ \A i \in 1..Len(history) : history[i].id = next_id + 1 - i
    /\ \A limit \in JobsListLimits :
          jobs_list_count(limit)
             <= JOB_HISTORY_MAXLEN + Cardinality(DOMAIN live \cup DOMAIN book)

\* more jobs ended than the ring holds
C9_Witness ==
    /\ next_id > JOB_HISTORY_MAXLEN
    /\ Len(history) = JOB_HISTORY_MAXLEN
    /\ history[1].id = next_id

----------------------------------------------------------------------------
(* POST /api/models/{model_name}/download (main.py 3088-3202). The handler
   takes _download_status_lock twice, once to read and once to write; the
   threads of earlier downloads run in between. *)

\* _download_key_for_model: every registered model has an hf_repo
download_key_for_model(m) == "hf:" \o hf_repo(m)

\* _download_status.get(download_key) or _download_status.get(model_name)
current_download_status_ByName(m) ==
    IF m \in DOMAIN download_status THEN download_status[m] ELSE NULL

current_download_status(m) ==
    IF download_key_for_model(m) \in DOMAIN download_status
    THEN download_status[download_key_for_model(m)]
    ELSE IF m \in DOMAIN download_status THEN download_status[m] ELSE NULL

IsDownloading(current) == current # NULL /\ current.status = "downloading"

DownloadNames == {"Kokoro", "CosyVoice3", "Qwen3-TTS-12Hz-9B-Base"}

DownloadErrors == {"", "Connection reset"}

RunningDownloads(key) == {w \in DOMAIN dl : dl[w].pc = "run" /\ dl[w].key = key}

\* ModelInfo.model_type: every descriptor of the registry is a HuggingFace one
model_type(m) == "huggingface"

\* the fields of a ModelInfo the model endpoints read
Descriptor(m) == [name |-> m, hf_repo |-> hf_repo(m), model_type |-> model_type(m)]

\* the checks of model_download between get_model and the status lookup
download_refusal(d) ==
    IF d.model_type = "pip"
    THEN Http(400, <<"Pip packages must be installed via pip install, not downloaded here.">>)
    ELSE IF d.hf_repo = ""
    THEN Http(400, <<"Model has no HuggingFace repo">>)
    ELSE Ok(NULL)

\* up to the first release of the lock
ModelDownload(m) ==
    /\ LoopIdle
    /\ IF m \notin RegistryModels
       THEN /\ Respond(TRUE, "models/download", Http(404, <<"Model '", m, "' not found">>), 0)
            /\ UNCHANGED loop
       ELSE IF download_refusal(Descriptor(m)).kind # "ok"
       THEN /\ Respond(TRUE, "models/download", download_refusal(Descriptor(m)), 0)
            /\ UNCHANGED loop
       ELSE IF IsDownloading(current_download_status(m))
       THEN /\ Respond(TRUE, "models/download",
                       [Ok(NULL) EXCEPT !.detail = <<"Download already in progress">>], 0)
            /\ UNCHANGED loop
       ELSE /\ Cardinality(DOMAIN dl) < MaxDownloads
            /\ loop' = [h |-> "model_download", model |-> m]
            /\ UNCHANGED resp
    /\ UNCHANGED <<jobVars, snapshots, dlVars, voiceVars, extVars>>

\* the second critical section, thread.start() and the response
ModelDownloadStart ==
    /\ loop # Idle /\ loop.h = "model_download"
    /\ download_status' =
          Del(Put(download_status, download_key_for_model(loop.model),
                  [status |-> "downloading", error |-> NULL, path |-> NULL]),
              loop.model)
    /\ dl' = Put(dl, Cardinality(DOMAIN dl) + 1,
                 [pc |-> "run", key |-> download_key_for_model(loop.model), model |-> loop.model,
                  orphaned |-> FALSE])
    /\ Respond(TRUE, "models/download",
               [Ok(NULL) EXCEPT !.detail = <<"Download started for ", loop.model>>], 0)
    /\ loop' = Idle
    /\ UNCHANGED <<jobVars, snapshots, voiceVars, extVars>>

\* _do_download: snapshot_download returned
DoDownloadCompleted(w) ==
    /\ w \in DOMAIN dl /\ dl[w].pc = "run"
    /\ snapshots' = snapshots \cup {dl[w].model}
    /\ download_status' =
          Put(download_status, dl[w].key,
              [status |-> "completed", error |-> NULL,
               path |-> <<get_model_cache_dir(dl[w].model) \o "/snapshots/1">>])
    /\ dl' = Put(dl, w, [dl[w] EXCEPT !.pc = "done"])
    /\ UNCHANGED <<jobVars, resp, loop, voiceVars, extVars>>

DoDownloadFailed_Swallowed(w, msg) ==
    /\ w \in DOMAIN dl /\ dl[w].pc = "run"
    /\ dl' = Put(dl, w, [dl[w] EXCEPT !.pc = "done"])
    /\ UNCHANGED <<jobVars, snapshots, download_status, resp, loop, voiceVars, extVars>>

\* _do_download: snapshot_download raised
DoDownloadFailed(w, msg) ==
    /\ w \in DOMAIN dl /\ dl[w].pc = "run"
    /\ download_status' =
          Put(download_status, dl[w].key,
              [status |-> "failed", error |-> <<msg>>, path |-> NULL])
    /\ dl' = Put(dl, w, [dl[w] EXCEPT !.pc = "done"])
    /\ UNCHANGED <<jobVars, snapshots, resp, loop, voiceVars, extVars>>

NextDL ==
    \/ \E m \in DownloadNames : ModelDownload(m)
    \/ ModelDownloadStart
    \/ \E w \in DOMAIN dl : DoDownloadCompleted(w)
    \/ \E w \in DOMAIN dl : \E msg \in DownloadErrors : DoDownloadFailed(w, msg)

SpecDL == Init /\ [][NextDL]_vars

(* DELETE /api/models/{model_name} (main.py 3205-3247) *)

\* the checks of model_delete between get_model and is_model_downloaded
delete_refusal(d) ==
    IF d.model_type = "pip"
    THEN Http(400, <<"Pip packages must be uninstalled via pip uninstall, not deleted here.">>)
    ELSE IF d.hf_repo = ""
    THEN Http(400, <<"Model has no HuggingFace repo">>)
    ELSE Ok(NULL)

is_model_downloaded_Always(d) == TRUE

\* ModelRegistry.is_model_downloaded
is_model_downloaded(d) ==
    IF d.model_type = "huggingface"
    THEN IF d.hf_repo = "" THEN FALSE ELSE get_downloaded_snapshot_path(d.name) # NULL
    ELSE FALSE

\* the outcomes of shutil.rmtree(cache_dir): the tree is gone, or the call
\* raised after it removed some of it, with the snapshot still usable or not
RmtreeResults == {"removed", "raised, snapshot kept", "raised, snapshot lost"}

\* ghost: the running download threads of a key whose record a delete removed
OrphanDownloads(key) ==
    [w \in DOMAIN dl |->
        IF dl[w].pc = "run" /\ dl[w].key = key
        THEN [dl[w] EXCEPT !.orphaned = TRUE] ELSE dl[w]]

ModelDelete(m, rmtree) ==
    /\ LoopIdle
    /\ IF m \notin RegistryModels
       THEN /\ Respond(TRUE, "models DELETE", Http(404, <<"Model '", m, "' not found">>), 0)
            /\ UNCHANGED <<snapshots, download_status, dl>>
       ELSE IF delete_refusal(Descriptor(m)).kind # "ok"
       THEN /\ Respond(TRUE, "models DELETE", delete_refusal(Descriptor(m)), 0)
            /\ UNCHANGED <<snapshots, download_status, dl>>
       ELSE IF ~is_model_downloaded(Descriptor(m))
       THEN /\ Respond(TRUE, "models DELETE",
                       Http(400, <<"Model '", m, "' is not downloaded">>), 0)
            /\ UNCHANGED <<snapshots, download_status, dl>>
       ELSE IF rmtree = "removed"
       THEN /\ snapshots' = snapshots \ {m}
            /\ download_status' = Del(Del(download_status, download_key_for_model(m)), m)
            /\ dl' = OrphanDownloads(download_key_for_model(m))
            /\ Respond(TRUE, "models DELETE",
                       [Ok(NULL) EXCEPT !.detail = <<"Model '", m, "' deleted successfully">>], 0)
       ELSE /\ snapshots' = IF rmtree = "raised, snapshot lost"
                            THEN snapshots \ {m} ELSE snapshots
            /\ UNCHANGED <<download_status, dl>>
            /\ Respond(TRUE, "models DELETE",
                       Http(500, <<"Failed to delete model: ", "OSError">>), 0)
    /\ UNCHANGED <<jobVars, loop, voiceVars, extVars>>

\* the steps of the download threads
DownloadNext ==
    \/ \E w \in DOMAIN dl : DoDownloadCompleted(w)
    \/ \E w \in DOMAIN dl : \E msg \in DownloadErrors : DoDownloadFailed(w, msg)

NextModels ==
    \/ \E m \in DownloadNames : ModelDownload(m)
    \/ ModelDownloadStart
    \/ DownloadNext
    \/ \E m \in DownloadNames : \E rmtree \in RmtreeResults : ModelDelete(m, rmtree)

SpecModels == Init /\ [][NextModels]_vars

\* a download thread that can take its step does
DownloadFairness == WF_vars(DownloadNext)

SpecModelsFair == Init /\ [][NextModels]_vars /\ DownloadFairness

\* C1: at most one download worker runs per repo key, and a download call
\* that finds the key "downloading" answers "Download already in progress",
\* starts no worker and leaves the status records as they are.
C1_OneDownloadWorkerPerKey ==
    /\ [](\A m \in DownloadNames :
             Cardinality(RunningDownloads(download_key_for_model(m))) <= 1)
    /\ [][\A m \in DownloadNames :
             (/\ m \in RegistryModels
              /\ IsDownloading(current_download_status(m))
              /\ ModelDownload(m))
                => /\ resp'.detail = <<"Download already in progress">>
                   /\ loop' = Idle
                   /\ UNCHANGED <<download_status, dl>>]_vars

\* a second call was answered while the first worker for the key still runs
C1_Witness ==
    /\ resp.detail = <<"Download already in progress">>
    /\ \E m \in DownloadNames :
          /\ Cardinality(RunningDownloads(download_key_for_model(m))) = 1
          /\ IsDownloading(current_download_status(m))
    /\ \E w \in DOMAIN dl : dl[w].pc = "done"

\* the status of a repo key, "absent" without a record
KeyStatus(status_map, key) ==
    IF key \in DOMAIN status_map THEN status_map[key].status ELSE "absent"

DownloadKeys == {download_key_for_model(m) : m \in DownloadNames \cap RegistryModels}

DownloadMoves ==
    {<<"absent", "downloading">>, <<"downloading", "completed">>,
     <<"downloading", "failed">>, <<"completed", "downloading">>,
     <<"failed", "downloading">>}

\* a completed record has its snapshot path and no error, a failed one its
\* error and no path
RecordShape ==
    \A key \in DOMAIN download_status :
       /\ download_status[key].status = "completed"
             => download_status[key].path # NULL /\ download_status[key].error = NULL
       /\ download_status[key].status = "failed"
             => download_status[key].error # NULL /\ download_status[key].path = NULL

LeavesDownloading ==
    \A key \in DownloadKeys :
       (KeyStatus(download_status, key) = "downloading")
          ~> (KeyStatus(download_status, key) # "downloading")

Raced(key) == \E w \in DOMAIN dl : dl[w].key = key /\ dl[w].orphaned

DeleteMoves == {<<"completed", "absent">>, <<"failed", "absent">>}

PipDescriptors ==
    [name : {"mlx-audio"}, hf_repo : {"", "mlx-community/Kokoro-82M-bf16"},
     model_type : {"pip"}]

\* C14: DELETE /api/models/{name} of a model that is not downloaded is
\* refused and changes neither the cache nor the status map; a pip descriptor
\* is refused by download and by delete before either touches any state; a
\* successful delete leaves no cache directory and no status record of the
\* model, and only a downloaded model is deleted.
C14_DeleteOnlyDownloaded ==
    /\ [][\A m \in DownloadNames \cap RegistryModels : \A rmtree \in RmtreeResults :
             ModelDelete(m, rmtree)
                => /\ m \notin snapshots
                         => /\ resp'.code = 400
                            /\ UNCHANGED <<snapshots, download_status>>
                   /\ resp'.code = 200
                         => /\ m \in snapshots
                            /\ m \notin snapshots'
                            /\ download_key_for_model(m) \notin DOMAIN download_status'
                            /\ m \notin DOMAIN download_status']_vars
    /\ [](\A d \in PipDescriptors :
             /\ download_refusal(d).kind = "http" /\ download_refusal(d).code = 400
             /\ delete_refusal(d).kind = "http" /\ delete_refusal(d).code = 400)

\* a model whose download completed was deleted: its record is gone
C14_Witness ==
    /\ resp.endpoint = "models DELETE" /\ resp.code = 200
    /\ \E w \in DOMAIN dl :
          /\ dl[w].pc = "done"
          /\ dl[w].key \notin DOMAIN download_status
          /\ dl[w].model \notin snapshots
          /\ resp.detail = <<"Model '", dl[w].model, "' deleted successfully">>

----------------------------------------------------------------------------
(* The voice store: the shipped defaults folder and the one user folder the
   clone engines share (main.py 878-960), with the upload, update and delete
   endpoints of qwen3 (2417-2566), chatterbox (2699-2796) and indextts2
   (2977-3069). user_wav and user_txt are the .wav and .txt files of the user
   folder by stem. *)

\* the .wav stems of SHARED_SAMPLE_VOICES_DIR
DefaultVoices == {"Natasha", "Suzan"}

VoiceNames == {"Natasha", "natasha", "Mine", " "}

Transcripts == {None, "hello "}

Uploads == {"take1"}

\* "/" in name or ".." in name
HasPathParts(name) == name \in {"../Mine", "a/b"}

is_shared_default_voice(name) ==
    IF Falsy(name) THEN FALSE
    ELSE \E stem \in DefaultVoices : Lower(stem) = Lower(name)

\* (INDEXTTS2_SAMPLE_VOICES_DIR / f"{name}.wav").exists()
sample_voice_exists(name) == name \in DefaultVoices

\* sf.read + sf.write of _decode_and_normalize_uploaded_voice: the stored file
\* is the normalized audio
Normalized(upload) == upload \o "@24k"

VoiceResponse(endpoint, out) ==
    /\ Respond(TRUE, endpoint, out, 0)
    /\ UNCHANGED <<jobVars, snapshots, loop, dlVars, extVars>>

Rejected(endpoint, out) ==
    /\ VoiceResponse(endpoint, out)
    /\ UNCHANGED voiceVars

\* the files an update leaves: audio replaced or renamed, transcript written,
\* renamed or removed
update_voice_files(name, final_name, transcript, file) ==
    /\ user_wav' = Put(Del(user_wav, name), final_name,
                       IF file # None THEN file ELSE user_wav[name])
    /\ user_txt' =
          IF transcript # None
          THEN Put(Del(user_txt, name), final_name, Strip(transcript))
          ELSE IF name \in DOMAIN user_txt /\ name # final_name
          THEN Put(Del(user_txt, name), final_name, user_txt[name])
          ELSE user_txt

\* unlink of the .wav and of the .txt when it exists
delete_voice_files(name) ==
    /\ user_wav' = Del(user_wav, name)
    /\ user_txt' = Del(user_txt, name)

(* /api/qwen3/voices *)

\* _safe_tag: "/" and " " become "-", characters outside [a-zA-Z0-9_-] are
\* dropped, "-" and "_" are stripped from both ends, an empty tag is the fallback
safe_tag(value, fallback) ==
    CASE value = "my voice" -> "my-voice"
      [] value = "a/b" -> "a-b"
      [] value = "../Mine" -> "Mine"
      [] value \in {"", " "} -> fallback
      [] OTHER -> value

\* outputs_dir / f"temp-{safe_tag}-{uuid.uuid4().hex[:8]}.wav", for one value of the uuid
TempUpload(name) == <<"temp", "-", safe_tag(name, "voice") \o "-1a2b3c4d", ".wav">>

\* decoded is whether sf.read accepts the upload; the handler writes its
\* temporary file before the decoding and unlinks it after the transcript is
\* written, and an HTTPException passes through `except HTTPException: raise`
Qwen3UploadVoice(name, file, transcript, decoded) ==
    /\ LoopIdle
    /\ IF Strip(name) = "" \/ HasPathParts(Strip(name))
       THEN Rejected("qwen3/voices POST", Http(400, <<"Invalid voice name">>))
       ELSE IF is_shared_default_voice(Strip(name))
       THEN Rejected("qwen3/voices POST", Http(400, <<"That name is reserved for default voices">>))
       ELSE IF ~decoded
       THEN /\ Respond(TRUE, "qwen3/voices POST",
                       Http(400, <<"Invalid or unsupported audio file. Please upload a WAV file.">>), 0)
            /\ output_files' = output_files \cup {TempUpload(Strip(name))}
            /\ UNCHANGED <<jobVars, snapshots, loop, dlVars, voiceVars, adapter_fs, rt, engVars,
                           cloneVars, client_request_id, alignment, jobs_view, tmp_files>>
       ELSE /\ user_wav' = Put(user_wav, Strip(name), Normalized(file))
            /\ user_txt' = Put(user_txt, Strip(name),
                               Strip(IF Falsy(transcript) THEN "" ELSE transcript))
            /\ VoiceResponse("qwen3/voices POST", Ok(NULL))

Qwen3DeleteVoice(name) ==
    /\ LoopIdle
    /\ IF is_shared_default_voice(name)
       THEN Rejected("qwen3/voices DELETE", Http(400, <<"Default voices cannot be deleted">>))
       ELSE IF name \notin DOMAIN user_wav
       THEN Rejected("qwen3/voices DELETE", Http(404, <<"Voice '", name, "' not found">>))
       ELSE /\ delete_voice_files(name)
            /\ VoiceResponse("qwen3/voices DELETE", Ok(NULL))

Qwen3UpdateVoice(name, new_name, transcript, file) ==
    /\ LoopIdle
    /\ IF is_shared_default_voice(name)
       THEN Rejected("qwen3/voices PUT", Http(400, <<"Default voices cannot be modified">>))
       ELSE IF name \notin DOMAIN user_wav
       THEN Rejected("qwen3/voices PUT", Http(404, <<"Voice '", name, "' not found">>))
       ELSE IF is_shared_default_voice(IF Falsy(new_name) THEN name ELSE new_name)
       THEN Rejected("qwen3/voices PUT", Http(400, <<"That name is reserved for default voices">>))
       ELSE /\ update_voice_files(name, IF Falsy(new_name) THEN name ELSE new_name,
                                  transcript, file)
            /\ VoiceResponse("qwen3/voices PUT", Ok(NULL))

(* /api/chatterbox/voices *)

ChatterboxUploadVoice(name, file, transcript) ==
    /\ LoopIdle
    /\ IF Falsy(name) \/ Strip(name) = ""
       THEN Rejected("chatterbox/voices POST", Http(400, <<"Voice name is required">>))
       ELSE IF is_shared_default_voice(name)
       THEN Rejected("chatterbox/voices POST", Http(400, <<"That name is reserved for default voices">>))
       ELSE /\ user_wav' = Put(user_wav, name, file)
            /\ user_txt' = IF transcript # None
                           THEN Put(user_txt, name, Strip(transcript))
                           ELSE user_txt
            /\ VoiceResponse("chatterbox/voices POST", Ok(NULL))

ChatterboxDeleteVoice(name) ==
    /\ LoopIdle
    /\ IF is_shared_default_voice(name)
       THEN Rejected("chatterbox/voices DELETE", Http(400, <<"Default voices cannot be deleted">>))
       ELSE IF name \notin DOMAIN user_wav
       THEN Rejected("chatterbox/voices DELETE", Http(404, <<"Voice '", name, "' not found">>))
       ELSE /\ delete_voice_files(name)
            /\ VoiceResponse("chatterbox/voices DELETE", Ok(NULL))

ChatterboxUpdateVoice(name, new_name, transcript, file) ==
    /\ LoopIdle
    /\ IF is_shared_default_voice(name)
       THEN Rejected("chatterbox/voices PUT", Http(400, <<"Default voices cannot be modified">>))
       ELSE IF name \notin DOMAIN user_wav
       THEN Rejected("chatterbox/voices PUT", Http(404, <<"Voice '", name, "' not found">>))
       ELSE IF is_shared_default_voice(IF Falsy(new_name) THEN name ELSE new_name)
       THEN Rejected("chatterbox/voices PUT", Http(400, <<"That name is reserved for default voices">>))
       ELSE /\ update_voice_files(name, IF Falsy(new_name) THEN name ELSE new_name,
                                  transcript, file)
            /\ VoiceResponse("chatterbox/voices PUT", Ok(NULL))

(* /api/indextts2/voices *)

IndexTTS2UploadVoice(name, file, transcript) ==
    /\ LoopIdle
    /\ IF Falsy(name) \/ Strip(name) = ""
       THEN Rejected("indextts2/voices POST", Http(400, <<"Voice name is required">>))
       ELSE /\ user_wav' = Put(user_wav, name, file)
            /\ user_txt' = IF transcript # None
                           THEN Put(user_txt, name, Strip(transcript))
                           ELSE user_txt
            /\ VoiceResponse("indextts2/voices POST", Ok(NULL))

IndexTTS2DeleteVoice(name) ==
    /\ LoopIdle
    /\ IF sample_voice_exists(name)
       THEN Rejected("indextts2/voices DELETE", Http(400, <<"Default voices cannot be deleted">>))
       ELSE IF name \notin DOMAIN user_wav
       THEN Rejected("indextts2/voices DELETE", Http(404, <<"Voice '", name, "' not found">>))
       ELSE /\ delete_voice_files(name)
            /\ VoiceResponse("indextts2/voices DELETE", Ok(NULL))

IndexTTS2UpdateVoice(name, new_name, transcript, file) ==
    /\ LoopIdle
    /\ IF sample_voice_exists(name)
       THEN Rejected("indextts2/voices PUT", Http(400, <<"Default voices cannot be modified">>))
       ELSE IF name \notin DOMAIN user_wav
       THEN Rejected("indextts2/voices PUT", Http(404, <<"Voice '", name, "' not found">>))
       ELSE /\ update_voice_files(name, IF Falsy(new_name) THEN name ELSE new_name,
                                  transcript, file)
            /\ VoiceResponse("indextts2/voices PUT", Ok(NULL))

NewNames == {None} \cup VoiceNames

Files == {None} \cup Uploads

NextVoices ==
    \/ \E name \in VoiceNames : \E file \in Uploads : \E transcript \in Transcripts :
          Qwen3UploadVoice(name, file, transcript, TRUE)
    \/ \E name \in VoiceNames : Qwen3DeleteVoice(name)
    \/ \E name \in VoiceNames : \E new_name \in NewNames : \E transcript \in Transcripts :
          \E file \in Files : Qwen3UpdateVoice(name, new_name, transcript, file)
    \/ \E name \in VoiceNames : \E file \in Uploads : \E transcript \in Transcripts :
          ChatterboxUploadVoice(name, file, transcript)
    \/ \E name \in VoiceNames : ChatterboxDeleteVoice(name)
    \/ \E name \in VoiceNames : \E new_name \in NewNames : \E transcript \in Transcripts :
          \E file \in Files : ChatterboxUpdateVoice(name, new_name, transcript, file)
    \/ \E name \in VoiceNames : \E file \in Uploads : \E transcript \in Transcripts :
          IndexTTS2UploadVoice(name, file, transcript)
    \/ \E name \in VoiceNames : IndexTTS2DeleteVoice(name)
    \/ \E name \in VoiceNames : \E new_name \in NewNames : \E transcript \in Transcripts :
          \E file \in Files : IndexTTS2UpdateVoice(name, new_name, transcript, file)

SpecVoices == Init /\ [][NextVoices]_vars

\* C10: the user folder never holds a voice under a default name.
C10_UserPoolHasNoDefaultName ==
    DOMAIN user_wav \cap DefaultVoices = {}

----------------------------------------------------------------------------
(* GET /api/{qwen3,chatterbox,indextts2}/voices (main.py 915-939, 2354-2362,
   2675-2683, 2953-2961) *)

\* the .txt files next to the shipped samples: a sample may have none
SampleTranscripts == [n \in {"Natasha"} |-> "hello "]

SampleEntry(name) ==
    [name |-> name, source |-> "default", origin_engine |-> "shared",
     transcript |-> IF name \in DOMAIN SampleTranscripts
                    THEN Strip(SampleTranscripts[name]) ELSE "",
     audio_path |-> <<"samples/voices/", name, ".wav">>]

UserEntry(name) ==
    [name |-> name, source |-> "user", origin_engine |-> "cloners",
     transcript |-> IF name \in DOMAIN user_txt THEN Strip(user_txt[name]) ELSE "",
     audio_path |-> <<"user_voices/cloners/", name, ".wav">>]

\* _get_all_voices: the shared folder is scanned first and a name that is
\* already in the dict is skipped, so the first folder that has a name wins
get_all_voices ==
    [name \in DefaultVoices \cup DOMAIN user_wav |->
        IF name \in DefaultVoices THEN SampleEntry(name) ELSE UserEntry(name)]

\* the listing of one engine: every entry gets the engine's audio_url
list_voices(engine) ==
    [name \in DOMAIN get_all_voices |->
        [f \in DOMAIN get_all_voices[name] \cup {"audio_url"} |->
            IF f = "audio_url"
            THEN <<"/api/", engine, "/voices/", name, "/audio">>
            ELSE get_all_voices[name][f]]]

CloneEngines == {"qwen3", "chatterbox", "indextts2"}

\* C11: the listing has one entry per name of either pool, and a name that
\* exists in both pools is listed with the entry of the user pool (source
\* "user", the user's audio path and transcript).
C11_ListingPrefersUserPool ==
    \A engine \in CloneEngines :
       /\ DOMAIN list_voices(engine) = DefaultVoices \cup DOMAIN user_wav
       /\ \A name \in DefaultVoices \cap DOMAIN user_wav :
             /\ list_voices(engine)[name].source = "user"
             /\ list_voices(engine)[name].audio_path = UserEntry(name).audio_path
             /\ list_voices(engine)[name].transcript = UserEntry(name).transcript

----------------------------------------------------------------------------
(* The adapters' voice folders: save_voice_sample and get_saved_voices
   (tts/qwen3_engine.py 405-466, tts/chatterbox_engine.py 237-286) and
   GET /api/voices/custom (main.py 1507-1565) *)

\* the .wav and .txt files of a user folder
FolderWav(d) == IF d = CLONER_USER_VOICES_DIR THEN user_wav ELSE adapter_fs[d].wav
FolderTxt(d) == IF d = CLONER_USER_VOICES_DIR THEN user_txt ELSE adapter_fs[d].txt

\* shutil.copy2 into self.user_voices_dir and the transcript next to it; the
\* Chatterbox adapter writes no transcript file for transcript None
SaveVoiceSample(adapter, name, file, transcript) ==
    LET d == user_voices_dir(adapter)
        wav == Put(FolderWav(d), name, file)
        txt == IF adapter = "chatterbox" /\ transcript = None
               THEN FolderTxt(d)
               ELSE Put(FolderTxt(d), name, IF transcript = None THEN "" ELSE transcript)
    IN  /\ IF d = CLONER_USER_VOICES_DIR
           THEN /\ user_wav' = wav
                /\ user_txt' = txt
                /\ UNCHANGED adapter_fs
           ELSE /\ adapter_fs' = [adapter_fs EXCEPT ![d] = [wav |-> wav, txt |-> txt]]
                /\ UNCHANGED voiceVars
        /\ UNCHANGED <<jobVars, snapshots, resp, loop, dlVars, rt, engVars, cloneVars, client_request_id, artVars>>

AdapterSampleEntry(name) ==
    [name |-> name, source |-> "default",
     audio_path |-> <<"data/samples/voices/", name, ".wav">>,
     transcript |-> IF name \in DOMAIN SampleTranscripts THEN SampleTranscripts[name] ELSE ""]

AdapterUserEntry(adapter, name) ==
    [name |-> name, source |-> "user",
     audio_path |-> <<user_voices_dir(adapter), "/", name, ".wav">>,
     transcript |-> IF name \in DOMAIN FolderTxt(user_voices_dir(adapter))
                    THEN FolderTxt(user_voices_dir(adapter))[name] ELSE ""]

\* get_saved_voices: merged[name.lower()], samples first, then the adapter's
\* user folder, which overrides.  Two files whose names differ only in case
\* share a key and the folder's listing order decides which one stays: the
\* value of a key is the set of entries that can stay.
get_saved_voices(adapter) ==
    LET users == DOMAIN FolderWav(user_voices_dir(adapter))
    IN  [k \in {Lower(n) : n \in DefaultVoices \cup users} |->
            IF \E n \in users : Lower(n) = k
            THEN {AdapterUserEntry(adapter, n) : n \in {u \in users : Lower(u) = k}}
            ELSE {AdapterSampleEntry(n) : n \in {v \in DefaultVoices : Lower(v) = k}}]

\* the names an adapter's get_saved_voices can return
saved_voice_names(adapter) ==
    {e.name : e \in UNION {get_saved_voices(adapter)[k] : k \in DOMAIN get_saved_voices(adapter)}}

\* list_all_custom_voices: one entry per name, the Qwen3 adapter asked first
list_all_custom_voices ==
    [name \in saved_voice_names("qwen3") \cup saved_voice_names("chatterbox") |->
        [name |-> name,
         source |-> IF name \in saved_voice_names("qwen3") THEN "qwen3" ELSE "chatterbox",
         engines |-> {a \in Adapters : name \in saved_voice_names(a)},
         has_audio |-> TRUE]]

StorageNames == {"Mine", "Natasha"}

NextStorage ==
    \/ \E a \in Adapters : \E name \in StorageNames : \E file \in Uploads :
          \E transcript \in Transcripts : SaveVoiceSample(a, name, file, transcript)
    \/ \E name \in StorageNames : \E file \in Uploads : \E transcript \in Transcripts :
          \E decoded \in BOOLEAN : Qwen3UploadVoice(name, file, transcript, decoded)
    \/ \E name \in StorageNames : \E file \in Uploads : \E transcript \in Transcripts :
          ChatterboxUploadVoice(name, file, transcript)
    \/ \E name \in StorageNames : \E file \in Uploads : \E transcript \in Transcripts :
          IndexTTS2UploadVoice(name, file, transcript)

SpecStorage == Init /\ [][NextStorage]_vars

\* every voice that was saved, through an upload or through an adapter
SavedVoices ==
    DOMAIN user_wav \cup UNION {DOMAIN adapter_fs[d].wav : d \in DOMAIN adapter_fs}

\* C12: the clone adapters share one user folder (user_voices/cloners): a
\* voice saved through an adapter or uploaded through /api/{engine}/voices is
\* returned by get_saved_voices of every adapter and by GET /api/voices/custom.
C12_SavedVoiceListedEverywhere ==
    \A name \in SavedVoices :
       /\ \A a \in Adapters : name \in saved_voice_names(a)
       /\ name \in DOMAIN list_all_custom_voices

----------------------------------------------------------------------------
(* The output folder: module import (main.py 363-367), lifespan (259-274),
   _sync_output_folder_runtime (610-646), settings_service.get_output_folder
   and set_output_folder (44-64), GET and PUT /api/settings/output-folder
   (4244-4273) *)

\* Path(...).expanduser()
ExpandUser(path) == IF path = "~/out" THEN "/home/u/out" ELSE path

\* mkdir(parents=True, exist_ok=True) succeeds on the directories the file
\* system lets the process create
CanMkdir(path) == path \in rt.creatable

Made(path) == [kind |-> "ok", path |-> path, made |-> {path}]
OSError == [kind |-> "oserror", path |-> None, made |-> {}]

ensure_dir_with_fallback(primary, fallback) ==
    IF CanMkdir(primary) THEN Made(primary)
    ELSE IF CanMkdir(fallback) THEN Made(fallback)
    ELSE OSError

\* the default is created outside the try block
get_output_folder ==
    IF ~Falsy(rt.setting) /\ CanMkdir(ExpandUser(rt.setting))
    THEN Made(ExpandUser(rt.setting))
    ELSE IF CanMkdir(HomeOutputs) THEN Made(HomeOutputs) ELSE OSError

output_folder_from_env_or_settings ==
    IF rt.env # None THEN [kind |-> "ok", path |-> rt.env, made |-> {}]
    ELSE get_output_folder

\* _runtime_home / "outputs"
RuntimeOutputs(home) ==
    IF home = MimikaHome THEN HomeOutputs ELSE "/tmp/mimikastudio/outputs"

\* the directory _sync_output_folder_runtime(path) makes the active one
sync_output_folder_runtime(home, path) ==
    LET configured == Strip(IF Falsy(path) THEN "" ELSE path)
        resolved == IF configured # "" THEN ExpandUser(configured) ELSE HomeOutputs
    IN  IF CanMkdir(resolved) THEN Made(resolved)
        ELSE ensure_dir_with_fallback(RuntimeOutputs(home), TmpOutputs)

Retarget_OutputsOnly(r, synced, made) ==
    [r EXCEPT !.outputs_dir = synced.path,
              !.dirs = r.dirs \cup made \cup synced.made]

\* outputs_dir and the /audio mount now point at the synced directory
Retarget(r, synced, made) ==
    [r EXCEPT !.outputs_dir = synced.path, !.static_dir = synced.path,
              !.dirs = r.dirs \cup made \cup synced.made]

OutputFrame == UNCHANGED <<jobVars, snapshots, loop, dlVars, voiceVars, adapter_fs, engVars, cloneVars, client_request_id, artVars>>

\* import of main.py followed by the startup half of lifespan
Startup ==
    /\ rt.phase = "off"
    /\ LET home == ensure_dir_with_fallback(MimikaHome, TmpHome)
           imported == ensure_dir_with_fallback(
                           IF rt.env # None THEN rt.env ELSE RuntimeOutputs(home.path),
                           TmpOutputs)
           configured == output_folder_from_env_or_settings
           synced == sync_output_folder_runtime(home.path, configured.path)
       IN  rt' = IF home.kind # "ok" \/ imported.kind # "ok"
                 THEN [rt EXCEPT !.phase = "failed", !.dirs = rt.dirs \cup home.made]
                 ELSE IF configured.kind # "ok" \/ synced.kind # "ok"
                 THEN [rt EXCEPT !.phase = "failed", !.runtime_home = home.path,
                                 !.outputs_dir = imported.path,
                                 !.static_dir = imported.path,
                                 !.dirs = rt.dirs \cup home.made \cup imported.made
                                              \cup configured.made]
                 ELSE [Retarget(rt, synced,
                                home.made \cup imported.made \cup configured.made)
                          EXCEPT !.phase = "running", !.runtime_home = home.path]
    /\ UNCHANGED resp
    /\ OutputFrame

PathAnswer(path) == [Ok(NULL) EXCEPT !.detail = <<path>>]

ApiGetOutputFolder ==
    /\ rt.phase = "running" /\ LoopIdle
    /\ LET configured == output_folder_from_env_or_settings
           synced == sync_output_folder_runtime(rt.runtime_home, configured.path)
       IN  IF configured.kind # "ok" \/ synced.kind # "ok"
           THEN /\ Respond(TRUE, "settings/output-folder GET", Exc("OSError"), 0)
                /\ rt' = [rt EXCEPT !.dirs = rt.dirs \cup configured.made]
           ELSE /\ Respond(TRUE, "settings/output-folder GET", PathAnswer(synced.path), 0)
                /\ rt' = Retarget(rt, synced, configured.made)
    /\ OutputFrame

ApiSetOutputFolder_NoOverrideCheck(path) ==
    /\ rt.phase = "running" /\ LoopIdle
    /\ LET folder == ExpandUser(Strip(path))
           synced == sync_output_folder_runtime(rt.runtime_home, Strip(path))
       IN  IF Strip(path) = ""
           THEN /\ Respond(TRUE, "settings/output-folder PUT",
                           Http(400, <<"Output folder path cannot be empty">>), 0)
                /\ UNCHANGED rt
           ELSE IF ~CanMkdir(folder) \/ synced.kind # "ok"
           THEN /\ Respond(TRUE, "settings/output-folder PUT",
                           Http(400, <<"Unable to set output folder: ", "OSError">>), 0)
                /\ UNCHANGED rt
           ELSE /\ Respond(TRUE, "settings/output-folder PUT", PathAnswer(synced.path), 0)
                /\ rt' = [Retarget(rt, synced, {folder}) EXCEPT !.setting = folder]
    /\ OutputFrame

ApiSetOutputFolder(path) ==
    /\ rt.phase = "running" /\ LoopIdle
    /\ LET folder == ExpandUser(Strip(path))
           synced == sync_output_folder_runtime(rt.runtime_home, Strip(path))
           pinned == sync_output_folder_runtime(rt.runtime_home, rt.env)
       IN  IF rt.env # None
           THEN IF pinned.kind # "ok"
                THEN /\ Respond(TRUE, "settings/output-folder PUT", Exc("OSError"), 0)
                     /\ UNCHANGED rt
                ELSE /\ Respond(TRUE, "settings/output-folder PUT",
                                [Ok(NULL) EXCEPT !.detail =
                                    <<pinned.path,
                                      "Output folder is fixed by MIMIKA_OUTPUT_DIR in this runtime.">>],
                                0)
                     /\ rt' = Retarget(rt, pinned, {})
           ELSE IF Strip(path) = ""
           THEN /\ Respond(TRUE, "settings/output-folder PUT",
                           Http(400, <<"Output folder path cannot be empty">>), 0)
                /\ UNCHANGED rt
           ELSE IF ~CanMkdir(folder) \/ synced.kind # "ok"
           THEN /\ Respond(TRUE, "settings/output-folder PUT",
                           Http(400, <<"Unable to set output folder: ", "OSError">>), 0)
                /\ UNCHANGED rt
           ELSE /\ Respond(TRUE, "settings/output-folder PUT", PathAnswer(synced.path), 0)
                /\ rt' = [Retarget(rt, synced, {folder}) EXCEPT !.setting = folder]
    /\ OutputFrame

\* the paths a client sends
OutputPaths == {"", " ~/out ", "/cfg/out", "/ro/out"}

\* what the service can find when it starts
StartConfigs ==
    {r \in [phase : {"off"}, env : {None, "/env/out"}, creatable : SUBSET OutputDirs,
            runtime_home : {None}, dirs : {{}}, setting : {None, "/cfg/out"},
            outputs_dir : {None}, static_dir : {None}] :
        /\ HomeOutputs \in r.creatable => MimikaHome \in r.creatable
        /\ "/tmp/mimikastudio/outputs" \in r.creatable => TmpHome \in r.creatable}

InitOutput ==
    /\ InitBase({CachedModels}) /\ rt \in StartConfigs /\ client_request_id = None
    /\ output_files = {}
    /\ alignment = NoAlignment
    /\ jobs_view = NoJobsView
    /\ tmp_files = {}

NextOutput ==
    \/ Startup
    \/ ApiGetOutputFolder
    \/ \E path \in OutputPaths : ApiSetOutputFolder(path)

SpecOutput == InitOutput /\ [][NextOutput]_vars

\* C15: without an override, a PUT of a path that can be created leaves the
\* directory existing, outputs_dir, the /audio mount and the output_folder
\* setting all equal to it (after strip and expanduser); a PUT of a path that
\* cannot be created answers 400 and changes none of the three
C15_SetOutputFolder ==
    [][\A path \in OutputPaths :
          (rt.env = None /\ ApiSetOutputFolder(path)) =>
              LET P == ExpandUser(Strip(path))
              IN  IF CanMkdir(P)
                  THEN /\ resp'.code = 200
                       /\ P \in rt'.dirs
                       /\ rt'.outputs_dir = P
                       /\ rt'.static_dir = P
                       /\ rt'.setting = P
                  ELSE /\ resp'.code = 400
                       /\ rt'.outputs_dir = rt.outputs_dir
                       /\ rt'.static_dir = rt.static_dir
                       /\ rt'.setting = rt.setting]_vars

C15_Witness ==
    /\ rt.env = None
    /\ resp.endpoint = "settings/output-folder PUT" /\ resp.code = 200
    /\ rt.setting = "/home/u/out" /\ rt.static_dir = "/home/u/out"
    /\ rt.outputs_dir = "/home/u/out" /\ "/home/u/out" \in rt.dirs
    /\ HomeOutputs \in rt.dirs

\* C16: with MIMIKA_OUTPUT_DIR set, a PUT of any path leaves the setting and
\* the active directory as they were (the env directory when it can be
\* created) and answers 200 with the active directory
C16_EnvOverrideRefusesPut ==
    [][\A path \in OutputPaths :
          (rt.env # None /\ ApiSetOutputFolder(path)) =>
              /\ rt'.setting = rt.setting
              /\ rt'.outputs_dir = rt.outputs_dir
              /\ rt'.static_dir = rt.static_dir
              /\ CanMkdir(rt.env) => rt'.outputs_dir = rt.env
              /\ resp'.code = 200
              /\ resp'.detail[1] = rt'.outputs_dir
              /\ Len(resp'.detail) = 2]_vars

C16_Witness ==
    /\ rt.env = "/env/out" /\ rt.outputs_dir = "/env/out"
    /\ "/cfg/out" \in rt.creatable /\ rt.setting = None
    /\ resp.endpoint = "settings/output-folder PUT" /\ resp.code = 200
    /\ resp.detail = <<"/env/out",
                       "Output folder is fixed by MIMIKA_OUTPUT_DIR in this runtime.">>

\* the candidates of a start, in the documented order
Candidates ==
    (IF rt.env # None THEN <<rt.env>> ELSE <<>>)
        \o (IF ~Falsy(rt.setting) THEN <<ExpandUser(rt.setting)>> ELSE <<>>)
        \o <<HomeOutputs, TmpOutputs>>

FirstCreatable(cands) ==
    LET ok == {i \in DOMAIN cands : CanMkdir(cands[i])}
    IN  IF ok = {} THEN None ELSE cands[CHOOSE i \in ok : \A k \in ok : i <= k]

\* C17: a start ends with the first creatable candidate as the output
\* directory, and fails only when no candidate can be created
C17_StartupFirstCreatable ==
    [][Startup =>
          IF FirstCreatable(Candidates) = None
          THEN rt'.phase = "failed"
          ELSE rt'.phase = "running" /\ rt'.outputs_dir = FirstCreatable(Candidates)]_vars

----------------------------------------------------------------------------
(* Calls into the adapter singletons: KokoroEngine.generate_audio
   (kokoro_engine.py 268-290), SupertonicEngine.generate_audio
   (supertonic_engine.py 132-164), CosyVoice3Engine.generate
   (cosyvoice3_engine.py 297-356), ChatterboxEngine.generate_voice_clone
   (chatterbox_engine.py 174-235) *)

\* adapters whose generate method calls load_model() before anything else
LoadsFirst == {"kokoro", "supertonic", "chatterbox"}

AfterLoad(a) == IF a \in LockedAdapters THEN "acquire" ELSE "infer"

EngFrame ==
    UNCHANGED <<jobVars, snapshots, resp, loop, dlVars, voiceVars, adapter_fs, rt, cloneVars, client_request_id, artVars>>

AdapterCall(t, a) ==
    /\ adapter_call[t] = NULL
    /\ adapter_call' = [adapter_call EXCEPT ![t] =
           [adapter |-> a, pc |-> IF a \in LoadsFirst THEN "load" ELSE "acquire"]]
    /\ UNCHANGED <<generate_lock, adapter_model>>
    /\ EngFrame

\* load_model(): returns the loaded model, or starts loading one
LoadModel(t) ==
    /\ adapter_call[t] # NULL /\ adapter_call[t].pc = "load"
    /\ LET a == adapter_call[t].adapter
       IN  adapter_call' = [adapter_call EXCEPT ![t].pc =
               IF adapter_model[a] THEN AfterLoad(a) ELSE "loading"]
    /\ UNCHANGED <<generate_lock, adapter_model>>
    /\ EngFrame

LoadModelDone(t) ==
    /\ adapter_call[t] # NULL /\ adapter_call[t].pc = "loading"
    /\ LET a == adapter_call[t].adapter
       IN  /\ adapter_model' = [adapter_model EXCEPT ![a] = TRUE]
           /\ adapter_call' = [adapter_call EXCEPT ![t].pc = AfterLoad(a)]
    /\ UNCHANGED generate_lock
    /\ EngFrame

\* with self._generate_lock:
AcquireGenerateLock(t) ==
    /\ adapter_call[t] # NULL /\ adapter_call[t].pc = "acquire"
    /\ LET a == adapter_call[t].adapter
       IN  /\ generate_lock[a] = 0
           /\ generate_lock' = [generate_lock EXCEPT ![a] = t]
    /\ adapter_call' = [adapter_call EXCEPT ![t].pc = "infer"]
    /\ UNCHANGED adapter_model
    /\ EngFrame

\* the inference returns (or raises) and the with block, where there is one,
\* releases the lock
InferenceDone(t) ==
    /\ adapter_call[t] # NULL /\ adapter_call[t].pc = "infer"
    /\ LET a == adapter_call[t].adapter
       IN  /\ generate_lock' = IF a \in LockedAdapters
                               THEN [generate_lock EXCEPT ![a] = 0]
                               ELSE generate_lock
           /\ adapter_model' = [adapter_model EXCEPT ![a] = TRUE]
    /\ adapter_call' = [adapter_call EXCEPT ![t] = NULL]
    /\ EngFrame

NextAdapters ==
    \/ \E t \in Callers, a \in Singletons : AdapterCall(t, a)
    \/ \E t \in Callers : LoadModel(t)
    \/ \E t \in Callers : LoadModelDone(t)
    \/ \E t \in Callers : AcquireGenerateLock(t)
    \/ \E t \in Callers : InferenceDone(t)

SpecAdapters == Init /\ [][NextAdapters]_vars

Inferring(a) ==
    {t \in Callers : adapter_call[t] # NULL /\ adapter_call[t].adapter = a
                     /\ adapter_call[t].pc = "infer"}

Loading(a) ==
    {t \in Callers : adapter_call[t] # NULL /\ adapter_call[t].adapter = a
                     /\ adapter_call[t].pc = "loading"}

\* C18: on each of the four adapter singletons at most one thread is inside
\* model inference, and no thread loads the adapter's model while another is
\* inside inference on it
C18_AdapterCallsSerialized ==
    \A a \in Singletons :
        /\ Cardinality(Inferring(a)) <= 1
        /\ Inferring(a) # {} => Loading(a) = {}

----------------------------------------------------------------------------
(* The scratch reference audio of clone requests: _prepare_clone_reference_audio
   (main.py 1060-1082), the clone branch of _run_qwen3_generation (1919-1934,
   1985-1986) and the clone branch and iterator() of qwen3_generate_stream
   (2257-2317) *)

CloneFrame ==
    UNCHANGED <<jobVars, snapshots, loop, dlVars, voiceVars, adapter_fs, rt, engVars, client_request_id, artVars>>

\* temp_ref of the next call: the uuid part makes every name new
ScratchRef(n) == <<"qwen3", "-", "ref-Mine-" \o ToString(n), ".wav">>

\* _prepare_clone_reference_audio on a sample that cannot be decoded: the
\* partly written file is unlinked and the call answers 400
PrepareUndecodable(endpoint) ==
    /\ LoopIdle
    /\ Respond(TRUE, endpoint,
               Http(400, <<"Voice sample '", "Mine", "' cannot be decoded. ",
                           "Please re-upload this voice as a WAV file.">>), 0)
    /\ UNCHANGED cloneVars
    /\ CloneFrame

\* _run_qwen3_generation, clone mode, up to the call of generate_voice_clone
CloneGenerateBegin(unload_after) ==
    /\ next_ref < MaxCloneCalls
    /\ next_ref' = next_ref + 1
    /\ scratch_files' = scratch_files \cup {ScratchRef(next_ref + 1)}
    /\ clone_calls' = Put(clone_calls, next_ref + 1,
           [kind |-> "sync", pc |-> "generating", ref |-> ScratchRef(next_ref + 1),
            unload_after |-> unload_after])
    /\ UNCHANGED <<qwen3_loaded, resp>>
    /\ CloneFrame

\* generate_voice_clone returns or raises; the finally clause unlinks the
\* file, and the unload that follows the try statement runs on a return only
CloneGenerateEnd(c, eng) ==
    /\ c \in DOMAIN clone_calls
    /\ clone_calls[c].kind = "sync"
    /\ scratch_files' = scratch_files \ {clone_calls[c].ref}
    /\ qwen3_loaded' = IF eng.kind = "ok" /\ clone_calls[c].unload_after
                       THEN FALSE
                       ELSE IF eng.kind = "import" THEN qwen3_loaded ELSE TRUE
    /\ clone_calls' = Del(clone_calls, c)
    /\ Respond(TRUE, "qwen3/generate", qwen3_http_error(eng), 0)
    /\ UNCHANGED next_ref
    /\ CloneFrame

\* qwen3_generate_stream, clone mode: the file is prepared, chunk_iter and
\* iterator() are created but not started, and the StreamingResponse is returned
CloneStreamOpen(unload_after) ==
    /\ LoopIdle
    /\ next_ref < MaxCloneCalls
    /\ next_ref' = next_ref + 1
    /\ scratch_files' = scratch_files \cup {ScratchRef(next_ref + 1)}
    /\ clone_calls' = Put(clone_calls, next_ref + 1,
           [kind |-> "stream", pc |-> "unstarted", ref |-> ScratchRef(next_ref + 1),
            unload_after |-> unload_after])
    /\ Respond(TRUE, "qwen3/generate/stream", Ok(NULL), 0)
    /\ UNCHANGED qwen3_loaded
    /\ CloneFrame

\* the server asks iterator() for its first chunk: the generator enters its
\* try block and the engine loads the model
CloneStreamStart(c) ==
    /\ c \in DOMAIN clone_calls
    /\ clone_calls[c].kind = "stream" /\ clone_calls[c].pc = "unstarted"
    /\ clone_calls' = Put(clone_calls, c, [clone_calls[c] EXCEPT !.pc = "iterating"])
    /\ qwen3_loaded' = TRUE
    /\ UNCHANGED <<scratch_files, next_ref, resp>>
    /\ CloneFrame

\* the started generator ends: chunk_iter is exhausted, chunk_iter raises, or
\* the server closes the generator after the client went away; each of them
\* runs the finally clause of iterator()
CloneStreamFinally(c) ==
    /\ c \in DOMAIN clone_calls
    /\ clone_calls[c].kind = "stream" /\ clone_calls[c].pc = "iterating"
    /\ scratch_files' = scratch_files \ {clone_calls[c].ref}
    /\ qwen3_loaded' = IF clone_calls[c].unload_after THEN FALSE ELSE qwen3_loaded
    /\ clone_calls' = Del(clone_calls, c)
    /\ UNCHANGED <<next_ref, resp>>
    /\ CloneFrame

\* the response is discarded before its body was iterated (the client is
\* gone before the first chunk is asked for): closing a generator that never
\* started runs none of its code
CloneStreamDiscard(c) ==
    /\ c \in DOMAIN clone_calls
    /\ clone_calls[c].kind = "stream" /\ clone_calls[c].pc = "unstarted"
    /\ clone_calls' = Del(clone_calls, c)
    /\ UNCHANGED <<scratch_files, qwen3_loaded, next_ref, resp>>
    /\ CloneFrame

NextClone ==
    \/ \E e \in {"qwen3/generate", "qwen3/generate/stream"} : PrepareUndecodable(e)
    \/ \E u \in BOOLEAN : CloneGenerateBegin(u)
    \/ \E c \in 1..MaxCloneCalls, eng \in EngineResults : CloneGenerateEnd(c, eng)
    \/ \E u \in BOOLEAN : CloneStreamOpen(u)
    \/ \E c \in 1..MaxCloneCalls : CloneStreamStart(c)
    \/ \E c \in 1..MaxCloneCalls : CloneStreamFinally(c)
    \/ \E c \in 1..MaxCloneCalls : CloneStreamDiscard(c)

SpecClone == Init /\ [][NextClone]_vars

\* the calls that end in this step
EndingCalls == {c \in DOMAIN clone_calls : c \notin DOMAIN clone_calls'}

\* C19: a scratch reference file exists only while the clone request that
\* made it is still in progress, and a request with unload_after leaves the
\* engine unloaded when its release scope ends
C19_ScratchAlwaysReleased ==
    /\ [](\A f \in scratch_files : \E c \in DOMAIN clone_calls : clone_calls[c].ref = f)
    /\ [][\A c \in EndingCalls : clone_calls[c].unload_after => ~qwen3_loaded']_vars

----------------------------------------------------------------------------
(* The error envelope (main.py 284-321) *)

\* C20: a response with status 500 has the envelope internal_server_error
\* with the detail "Internal server error", and the envelope http_error comes
\* with a 4xx status only
C20_InternalErrorEnvelope ==
    /\ resp.code = 500 =>
           /\ resp.error = "internal_server_error"
           /\ resp.detail = <<"Internal server error">>
    /\ resp.error = "http_error" => resp.code \in 400..499

----------------------------------------------------------------------------
(* The request id (main.py 284-308) *)

InitRequestId ==
    /\ InitBase(PartialCaches) /\ rt = DefaultRuntime /\ client_request_id \in {None, "req-1"}
    /\ output_files = {}
    /\ alignment = NoAlignment
    /\ jobs_view = NoJobsView
    /\ tmp_files = {}

SpecRequestId == InitRequestId /\ [][NextGen]_vars

\* C21: every response carries an X-Request-ID header; it is the client's
\* x-request-id when one was sent, and it equals the request_id of the error
\* body
C21_EveryResponseHasRequestId ==
    resp.endpoint # "" =>
        /\ resp.x_request_id # None
        /\ client_request_id # None => resp.x_request_id = client_request_id
        /\ resp.error # None => resp.request_id = resp.x_request_id

----------------------------------------------------------------------------
(* Deleting generated artifacts: tts_audio_delete (main.py 3789-3800),
   kokoro_audio_delete (3842-3854), supertonic_audio_delete (3895-3906),
   cosyvoice3_audio_delete (3947-3958), voice_clone_audio_delete (4019-4032),
   audiobook_delete (3721-3738).  A file name is the sequence of its parts. *)

ArtifactFrame ==
    UNCHANGED <<jobVars, snapshots, loop, dlVars, voiceVars, adapter_fs, rt, engVars,
                cloneVars, client_request_id, alignment, jobs_view, tmp_files>>

\* str.startswith(prefix + "-") and str.endswith(ext)
StartsWith(name, prefix) == Len(name) >= 2 /\ name[1] = prefix /\ name[2] = "-"
EndsIn(name, ext) == Len(name) >= 1 /\ name[Len(name)] = ext

AudioEndpoints == {"tts", "kokoro", "supertonic", "cosyvoice3", "voice-clone"}

valid_prefixes(endpoint) ==
    CASE endpoint \in {"tts", "kokoro"} -> {"kokoro"}
      [] endpoint = "supertonic" -> {"supertonic"}
      [] endpoint = "cosyvoice3" -> {"cosyvoice3"}
      [] endpoint = "voice-clone" -> {"qwen3", "chatterbox", "indextts2"}

valid_filename_Any(endpoint, filename) == TRUE

\* the check at the head of the five audio delete handlers
valid_filename(endpoint, filename) ==
    /\ EndsIn(filename, ".wav")
    /\ \E p \in valid_prefixes(endpoint) : StartsWith(filename, p)

AudioDelete(endpoint, filename) ==
    /\ LoopIdle
    /\ IF ~valid_filename(endpoint, filename)
       THEN /\ Respond(TRUE, endpoint \o "/audio DELETE", Http(400, <<"Invalid filename">>), 0)
            /\ UNCHANGED <<output_files, scratch_files>>
       ELSE IF filename \notin output_files \cup scratch_files
       THEN /\ Respond(TRUE, endpoint \o "/audio DELETE",
                       Http(404, <<"Audio file '", filename, "' not found">>), 0)
            /\ UNCHANGED <<output_files, scratch_files>>
       ELSE /\ Respond(TRUE, endpoint \o "/audio DELETE", Ok(NULL), 0)
            /\ output_files' = output_files \ {filename}
            /\ scratch_files' = scratch_files \ {filename}
    /\ UNCHANGED <<jobVars, snapshots, loop, dlVars, voiceVars, adapter_fs, rt, engVars,
                   clone_calls, qwen3_loaded, next_ref, client_request_id, alignment,
                   jobs_view, tmp_files>>

\* outputs_dir / f"audiobook-{job_id}.wav", .mp3 and .m4b
AudiobookFiles(job_id) ==
    {<<"audiobook", "-", job_id, ext>> : ext \in {".wav", ".mp3", ".m4b"}}

AudiobookDelete(job_id) ==
    /\ LoopIdle
    /\ IF AudiobookFiles(job_id) \cap output_files = {}
       THEN /\ Respond(TRUE, "audiobook DELETE",
                       Http(404, <<"Audiobook '", job_id, "' not found">>), 0)
            /\ UNCHANGED output_files
       ELSE /\ Respond(TRUE, "audiobook DELETE", Ok(NULL), 0)
            /\ output_files' = output_files \ AudiobookFiles(job_id)
    /\ ArtifactFrame

\* the files outputs_dir can hold and the names a client can send
FileNames ==
    {<<"kokoro", "-", "bf_emma-1a2b3c4d", ".wav">>,
     <<"supertonic", "-", "F1-1a2b3c4d", ".wav">>,
     <<"qwen3", "-", "clone-Mine-1a2b3c4d", ".wav">>,
     <<"audiobook", "-", "job1", ".wav">>,
     <<"audiobook", "-", "job1", ".mp3">>,
     <<"kokoro", "-", "notes", ".txt">>,
     <<"mimika", ".db">>}

ArtifactJobIds == {"job1", "job2"}

\* outputs_dir keeps the files of earlier runs
InitArtifacts ==
    /\ InitBase({CachedModels}) /\ rt = DefaultRuntime /\ client_request_id = None
    /\ output_files \in SUBSET FileNames
    /\ alignment = NoAlignment
    /\ jobs_view = NoJobsView
    /\ tmp_files = {}

NextArtifacts ==
    \/ \E e \in AudioEndpoints, f \in FileNames : AudioDelete(e, f)
    \/ \E j \in ArtifactJobIds : AudiobookDelete(j)

SpecArtifacts == InitArtifacts /\ [][NextArtifacts]_vars

\* ^{allowed-prefix}-.*\.(wav|mp3|m4b)$ for the prefixes of an endpoint
ArtifactPrefixes(endpoint) ==
    IF endpoint = "audiobook" THEN {"audiobook"} ELSE valid_prefixes(endpoint)

MatchesArtifact(endpoint, name) ==
    /\ \E p \in ArtifactPrefixes(endpoint) : StartsWith(name, p)
    /\ \E ext \in {".wav", ".mp3", ".m4b"} : EndsIn(name, ext)

\* C22: an audio delete call whose file name does not match the pattern of
\* its endpoint answers 400 and removes nothing, and every file a delete call
\* removes, audiobook delete included, matches the pattern of its endpoint
C22_DeleteOnlyOwnArtifacts ==
    [][/\ \A e \in AudioEndpoints, f \in FileNames :
             (AudioDelete(e, f) /\ ~MatchesArtifact(e, f)) =>
                 resp'.code = 400 /\ output_files' = output_files
       /\ \A e \in AudioEndpoints, f \in FileNames :
             AudioDelete(e, f) =>
                 \A g \in output_files \ output_files' : MatchesArtifact(e, g)
       /\ \A j \in ArtifactJobIds :
             AudiobookDelete(j) =>
                 \A g \in output_files \ output_files' : MatchesArtifact("audiobook", g)
      ]_vars

C22_Witness ==
    /\ resp.endpoint = "kokoro/audio DELETE" /\ resp.code = 400
    /\ <<"kokoro", "-", "notes", ".txt">> \in output_files
    /\ <<"kokoro", "-", "bf_emma-1a2b3c4d", ".wav">> \notin output_files
    /\ <<"audiobook", "-", "job1", ".mp3">> \notin output_files
    /\ <<"mimika", ".db">> \in output_files

----------------------------------------------------------------------------
(* Voice names on write (main.py 2427-2435, 2706-2714, 2984-2987, 2520-2535) *)

\* the names a client can send, with and without characters outside
\* [A-Za-z0-9_-]
NameInputs == {"Mine", "my voice", "a/b", " "}

\* re.fullmatch(r"[A-Za-z0-9_-]+", name)
MatchesNamePattern(name) == name \in {"Mine", "Natasha", "natasha", "Suzan"}

NextNames ==
    \/ \E name \in NameInputs : \E decoded \in BOOLEAN :
          Qwen3UploadVoice(name, "take1", None, decoded)
    \/ \E name \in NameInputs : ChatterboxUploadVoice(name, "take1", None)
    \/ \E name \in NameInputs : IndexTTS2UploadVoice(name, "take1", None)
    \/ \E name \in NameInputs : \E new_name \in NameInputs :
          Qwen3UpdateVoice(name, new_name, None, None)

SpecNames == Init /\ [][NextNames]_vars

\* C23: an upload or a rename to a name outside [A-Za-z0-9_-]+ answers 400
\* and leaves the user pool as it was
C23_InvalidNameRejected ==
    [][\A name \in NameInputs : ~MatchesNamePattern(name) =>
          /\ (\/ Qwen3UploadVoice(name, "take1", None, TRUE)
              \/ ChatterboxUploadVoice(name, "take1", None)
              \/ IndexTTS2UploadVoice(name, "take1", None))
                 => resp'.code = 400 /\ UNCHANGED voiceVars
          /\ \A old \in NameInputs :
                (Qwen3UpdateVoice(old, name, None, None) /\ old \in DOMAIN user_wav)
                    => resp'.code = 400 /\ UNCHANGED voiceVars]_vars

----------------------------------------------------------------------------
(* Semantically invalid Qwen3 requests (main.py 1869-1983, 2205-2306) *)

NextSemantic ==
    \/ \E req \in Qwen3Requests : \E eng \in EngineChoices(req) :
          Qwen3GenerateSync(req, eng, MaxGenJobs, TRUE)
    \/ \E req \in Qwen3Requests : \E eng \in EngineChoices(req) :
          Qwen3GenerateStream(req, eng, MaxGenJobs, TRUE)

SpecSemantic == Init /\ [][NextSemantic]_vars

\* the requests of the claim: default model size and quantization, and a
\* missing voice_name, a missing speaker or an unknown mode
SemanticallyInvalid(req) ==
    /\ req.model_size = "0.6B" /\ req.quant = "bf16"
    /\ \/ req.mode = "clone" /\ Falsy(req.voice_name)
       \/ req.mode = "custom" /\ Falsy(req.speaker)
       \/ req.mode \notin {"clone", "custom"}

\* word in detail.lower()
Mentions(detail, word) ==
    \E k \in DOMAIN detail :
        <<detail[k], word>> \in {<<"Clone mode requires voice_name", "voice_name">>,
                                 <<"Custom mode requires speaker", "speaker">>}

\* C24: POST /api/qwen3/generate answers 400 to a clone request without
\* voice_name (detail mentions voice_name), to a custom request without
\* speaker (detail mentions speaker) and to an unknown mode, and
\* POST /api/qwen3/generate/stream answers 400 to a custom request without speaker
C24_InvalidRequest400 ==
    [][\A req \in Qwen3Requests : SemanticallyInvalid(req) =>
          /\ Qwen3GenerateSync(req, Ok(NULL), MaxGenJobs, TRUE) =>
                /\ resp'.code = 400
                /\ req.mode = "clone" => Mentions(resp'.detail, "voice_name")
                /\ req.mode = "custom" => Mentions(resp'.detail, "speaker")
          /\ (req.mode = "custom" /\ Qwen3GenerateStream(req, Ok(NULL), MaxGenJobs, TRUE))
                => resp'.code = 400]_vars

----------------------------------------------------------------------------
(* Word alignment: _align_expected_words_to_observed (575-599), called by
   tts_align_words (1624-1668) with the tokens of the displayed text and
   the words the recognizer heard.  Lists are 1-based here, so the cursor
   starts at 1 where the code starts at 0. *)

AlignTokens == {"aa", "bb"}
AlignTimes == {0, 10, 20}
ObservedWords == [token : AlignTokens, start_ms : AlignTimes]
ListsUpTo(S, n) == UNION {[1..k -> S] : k \in 0..n}

Least(S) == CHOOSE i \in S : \A j \in S : i <= j

RECURSIVE align_from_Reuse(_, _, _, _)
align_from_Reuse(expected_tokens, observed_words, cursor, last_ms) ==
    IF expected_tokens = <<>> THEN <<>>
    ELSE LET expected == Head(expected_tokens)
             hits == {i \in cursor..Len(observed_words) : observed_words[i].token = expected}
         IN  IF hits = {}
             THEN <<last_ms>> \o align_from_Reuse(Tail(expected_tokens), observed_words, cursor, last_ms)
             ELSE LET matched_ms == observed_words[Least(hits)].start_ms
                  IN  <<matched_ms>> \o align_from_Reuse(Tail(expected_tokens), observed_words,
                                                          Least(hits), matched_ms)

\* the loop over expected_tokens, from the iteration that sees `cursor` and `last_ms`
RECURSIVE align_from(_, _, _, _)
align_from(expected_tokens, observed_words, cursor, last_ms) ==
    IF expected_tokens = <<>> THEN <<>>
    ELSE LET expected == Head(expected_tokens)
             hits == {i \in cursor..Len(observed_words) : observed_words[i].token = expected}
         IN  IF hits = {}
             THEN <<last_ms>> \o align_from(Tail(expected_tokens), observed_words, cursor, last_ms)
             ELSE LET matched_ms == observed_words[Least(hits)].start_ms
                  IN  <<matched_ms>> \o align_from(Tail(expected_tokens), observed_words,
                                                    Least(hits) + 1, matched_ms)

align_expected_words_to_observed(expected_tokens, observed_words) ==
    align_from(expected_tokens, observed_words, 1, 0)

AlignWords ==
    /\ alignment.pc = "called"
    /\ alignment' = [alignment EXCEPT
           !.starts_ms = align_expected_words_to_observed(alignment.expected_tokens,
                                                          alignment.observed_words),
           !.pc = "returned"]
    /\ UNCHANGED <<jobVars, snapshots, resp, loop, dlVars, voiceVars, adapter_fs, rt,
                   engVars, cloneVars, client_request_id, output_files, jobs_view,
                   tmp_files>>

AlignArguments ==
    [expected_tokens : ListsUpTo(AlignTokens, MaxWords),
     observed_words : ListsUpTo(ObservedWords, MaxWords),
     starts_ms : {<<>>}, pc : {"called"}]

InitAlign ==
    /\ InitBase(CacheAtStart)
    /\ rt = DefaultRuntime
    /\ client_request_id = None
    /\ output_files = {}
    /\ alignment \in AlignArguments
    /\ jobs_view = NoJobsView
    /\ tmp_files = {}

NextAlign == AlignWords

SpecAlign == InitAlign /\ [][NextAlign]_vars

NonDecreasing(s) == \A i, j \in 1..Len(s) : i <= j => s[i] <= s[j]
StartTimes(observed_words) == [i \in 1..Len(observed_words) |-> observed_words[i].start_ms]

\* the observed word the k-th expected token is matched to (0 for none), given
\* in used[k] the last observed word consumed by the tokens up to the k-th
GreedyMatch(expected_tokens, observed_words, used, k) ==
    LET later == {i \in (used[k - 1] + 1)..Len(observed_words) :
                     observed_words[i].token = expected_tokens[k]}
    IN  IF later = {} THEN 0 ELSE Least(later)

\* C25: the alignment returns one start time per expected token; a matched
\* token takes the start time of the first observed word with the same token
\* that no earlier token consumed, observed words being consumed in order and
\* never twice; an unmatched token takes the start time of the last match
\* before it, 0 when there is none; and the result is non-decreasing whenever
\* the observed start times are.
C25_AlignmentGreedyMonotonic ==
    alignment.pc = "returned" =>
        LET e == alignment.expected_tokens
            o == alignment.observed_words
            r == alignment.starts_ms
            used[k \in 0..Len(e)] ==
                IF k = 0 THEN 0
                ELSE IF GreedyMatch(e, o, used, k) = 0 THEN used[k - 1]
                     ELSE GreedyMatch(e, o, used, k)
            boundary[k \in 0..Len(e)] ==
                IF k = 0 THEN 0
                ELSE IF GreedyMatch(e, o, used, k) = 0 THEN boundary[k - 1]
                     ELSE o[GreedyMatch(e, o, used, k)].start_ms
        IN  /\ Len(r) = Len(e)
            /\ \A k \in 1..Len(e) : r[k] = boundary[k]
            /\ \A k \in 1..Len(e) : used[k - 1] <= used[k]
            /\ \A j, k \in 1..Len(e) :
                   (j < k /\ GreedyMatch(e, o, used, j) # 0 /\ GreedyMatch(e, o, used, k) # 0)
                       => GreedyMatch(e, o, used, j) < GreedyMatch(e, o, used, k)
            /\ NonDecreasing(StartTimes(o)) => NonDecreasing(r)

\* a repeated token served by two observed words, with an unmatched token between
C25_Witness ==
    /\ alignment.pc = "returned"
    /\ alignment.expected_tokens = <<"aa", "bb", "aa">>
    /\ alignment.observed_words = <<[token |-> "aa", start_ms |-> 10], [token |-> "aa", start_ms |-> 20]>>
    /\ alignment.starts_ms = <<10, 10, 20>>

----------------------------------------------------------------------------
(* One audiobook job seen through its three read endpoints:
   GET /api/audiobook/status/{job_id} (3553-3599), GET /api/jobs/{job_id}
   (3309-3331) and its row of GET /api/jobs (3276-3306). *)

\* the "status" field of audiobook_status: job.status.value
audiobook_status(job_id) == book[job_id].status

\* the item jobs_list keeps for an id: the audiobook items are inserted at the
\* front, the live snapshot comes next, the history last, and the first item
\* of an id wins
jobs_list_row(job_id) ==
    IF job_id \in DOMAIN book
    THEN audiobook_job_to_history_item(job_id)
    ELSE IF job_id \in DOMAIN live
    THEN live[job_id]
    ELSE history[CHOOSE i \in HistoryIndexes(job_id) : \A k \in HistoryIndexes(job_id) : i <= k]

\* C26: for every audiobook job, at any time, the status GET /api/jobs/{id}
\* reports equals the status GET /api/audiobook/status/{id} reports and the
\* status of the job's row in GET /api/jobs, the terminal statuses included.
C26_AudiobookStatusAgrees ==
    \A j \in DOMAIN book :
       /\ StatusOf(jobs_get(j)) = audiobook_status(j)
       /\ StatusOf(jobs_list_row(j)) = audiobook_status(j)

----------------------------------------------------------------------------
(* The job read endpoints next to the worker threads.  jobs_get (3309-3331)
   and jobs_list (3276-3306) run on the event loop and take the lock of the
   live set and the lock of the history ring one after the other, so a
   worker thread can step between the two reads. *)

ReadFrame ==
    UNCHANGED <<jobVars, snapshots, resp, dlVars, voiceVars, adapter_fs, rt, engVars,
                cloneVars, client_request_id, output_files, alignment, tmp_files>>

JobsViewGet(job_id, code) ==
    [endpoint |-> "jobs/{job_id}", code |-> code, job_id |-> job_id, ids |-> <<>>]

\* with _live_generation_jobs_lock: live_item = _live_generation_jobs.get(job_id)
JobsGet(job_id) ==
    /\ LoopIdle
    /\ IF job_id \in DOMAIN live
       THEN /\ jobs_view' = JobsViewGet(job_id, 200)
            /\ UNCHANGED loop
       ELSE /\ loop' = [h |-> "jobs_get", job_id |-> job_id]
            /\ UNCHANGED jobs_view
    /\ ReadFrame

\* with _job_history_lock: the scan of the ring; then get_job; then the 404
JobsGetHistory ==
    /\ loop.h = "jobs_get"
    /\ jobs_view' = JobsViewGet(loop.job_id,
                        IF HistoryIndexes(loop.job_id) # {} \/ loop.job_id \in DOMAIN book
                        THEN 200 ELSE 404)
    /\ loop' = Idle
    /\ ReadFrame

RECURSIVE Ascending(_)
Ascending(S) ==
    IF S = {} THEN <<>>
    ELSE LET least == CHOOSE i \in S : \A j \in S : i <= j
         IN  <<least>> \o Ascending(S \ {least})

RECURSIVE Descending(_)
Descending(S) ==
    IF S = {} THEN <<>>
    ELSE LET greatest == CHOOSE i \in S : \A j \in S : j <= i
         IN  <<greatest>> \o Descending(S \ {greatest})

\* items = _snapshot_live_generation_jobs(): the ids of the values of the
\* dict, in insertion order, which is the order the ids were handed out
JobsList ==
    /\ LoopIdle
    /\ loop' = [h |-> "jobs_list", items |-> Ascending(DOMAIN live)]
    /\ UNCHANGED jobs_view
    /\ ReadFrame

RECURSIVE dedup_from(_, _)
dedup_from(items, seen) ==
    IF items = <<>> THEN <<>>
    ELSE IF Head(items) \in seen
    THEN dedup_from(Tail(items), seen)
    ELSE <<Head(items)>> \o dedup_from(Tail(items), seen \cup {Head(items)})

deduped_All(items) == items

\* deduped: the first item of every id
deduped(items) == dedup_from(items, {})

\* items.extend(list(_job_history)); every audiobook job inserted at the
\* front; deduplication.  The sort by timestamp and the cut to the limit
\* reorder and shorten the rows and cannot make two rows of one id.
JobsListMerge ==
    /\ loop.h = "jobs_list"
    /\ jobs_view' =
          [endpoint |-> "jobs", code |-> 200, job_id |-> 0,
           ids |-> deduped(Descending(DOMAIN book) \o loop.items
                           \o [i \in 1..Len(history) |-> history[i].id])]
    /\ loop' = Idle
    /\ ReadFrame

\* the ids a client can ask for: the ids handed out so far, and 0, which no job has
ReadJobIds == 0..next_id

NextReads ==
    \/ \E req \in JobRequests : QueueQwen3Job(req, MaxReadJobs, FALSE)
    \/ WorkerNext
    \/ \E j \in ReadJobIds : JobsGet(j)
    \/ JobsGetHistory
    \/ JobsList
    \/ JobsListMerge

SpecReads == Init /\ [][NextReads]_vars

\* C27: for every enqueued Qwen3 job, once the enqueue call has answered, GET
\* /api/jobs/{job_id} never answers 404, whatever the worker does between
\* the two reads of the handler; once the worker thread has ended the job is
\* not in the live set and the history ring holds exactly one entry with its
\* id; and GET /api/jobs never returns two rows with the same id.
C27_EnqueuedJobAlwaysFound ==
    /\ (jobs_view.endpoint = "jobs/{job_id}" /\ jobs_view.job_id \in 1..next_id)
          => jobs_view.code = 200
    /\ (loop.h = "jobs_get" /\ loop.job_id \in 1..next_id)
          => HistoryIndexes(loop.job_id) # {}
    /\ \A j \in 1..next_id :
          j \notin DOMAIN wk
             => j \notin DOMAIN live /\ Cardinality(HistoryIndexes(j)) = 1
    /\ jobs_view.endpoint = "jobs"
          => \A a, b \in 1..Len(jobs_view.ids) :
                jobs_view.ids[a] = jobs_view.ids[b] => a = b

\* GET /api/jobs answered while a worker is between its history append and its
\* pop, the job being in the live set and in the ring at once
C27_Witness ==
    /\ jobs_view.endpoint = "jobs"
    /\ \E j \in DOMAIN live :
          /\ HistoryIndexes(j) # {} /\ j \in DOMAIN wk
          /\ jobs_view.ids = <<j>>

----------------------------------------------------------------------------
(* GET /api/models/status (main.py 3111-3136): the two fields of a model's
   row that depend on the download status table. *)

models_status(m) ==
    LET status_info == current_download_status(m)
        status_path == IF status_info # NULL THEN status_info.path ELSE NULL
    IN  [download_status |-> IF status_info # NULL THEN status_info.status ELSE None,
         downloaded_path |-> IF status_path # NULL THEN status_path
                             ELSE get_downloaded_snapshot_path(m)]

\* the last models request that answered was the successful delete of m
DeletedLast(m) ==
    /\ resp.endpoint = "models DELETE"
    /\ resp.code = 200
    /\ resp.detail = <<"Model '", m, "' deleted successfully">>

\* C28: after a successful DELETE /api/models/{name}, and as long as no
\* download request followed it, GET /api/models/status reports
\* download_status null and downloaded_path null for the model, also when a
\* download thread of the same repo key was running while the delete ran.
C28_DeletedStaysAbsent ==
    \A m \in DownloadNames :
       DeletedLast(m)
          => /\ models_status(m).download_status = None
             /\ models_status(m).downloaded_path = NULL

----------------------------------------------------------------------------
(* GET /api/voice-clone/audio/list (main.py 3963-4016) and DELETE
   /api/voice-clone/audio/{filename} (4019-4032) next to the requests that
   keep scratch files in outputs_dir: the clone reference of
   _prepare_clone_reference_audio (1060-1082) and the temporary file of
   qwen3_upload_voice. *)

\* outputs_dir.glob("qwen3-*.wav"), "chatterbox-*.wav" and "indextts2-*.wav"
voice_clone_audio_list ==
    {f \in output_files \cup scratch_files :
        \E p \in {"qwen3", "chatterbox", "indextts2"} : StartsWith(f, p) /\ EndsIn(f, ".wav")}

ScratchUploads == {"Mine"}

\* the names a client can send to the delete endpoint
ScratchNames ==
    {ScratchRef(n) : n \in 1..MaxCloneCalls} \cup {TempUpload(name) : name \in ScratchUploads}
        \cup {<<"qwen3", "-", "clone-Mine-1a2b3c4d", ".wav">>}

NextScratch ==
    \/ CloneGenerateBegin(FALSE)
    \/ \E c \in 1..MaxCloneCalls, eng \in EngineResults : CloneGenerateEnd(c, eng)
    \/ CloneStreamOpen(FALSE)
    \/ \E c \in 1..MaxCloneCalls : CloneStreamStart(c)
    \/ \E c \in 1..MaxCloneCalls : CloneStreamFinally(c)
    \/ \E name \in ScratchUploads, decoded \in BOOLEAN :
          Qwen3UploadVoice(name, "take1", None, decoded)
    \/ \E f \in ScratchNames : AudioDelete("voice-clone", f)

SpecScratch == Init /\ [][NextScratch]_vars

\* the clone reference files and temporary upload files present in outputs_dir
ScratchPresent == scratch_files \cup {f \in output_files : StartsWith(f, "temp")}

\* C29: at no time does GET /api/voice-clone/audio/list return a scratch
\* reference file (qwen3-ref-*) or a temporary upload file that a request
\* wrote into the output directory, and DELETE /api/voice-clone/audio/{filename}
\* never accepts one.
C29_ScratchNeverSurfaces ==
    /\ [](ScratchPresent \cap voice_clone_audio_list = {})
    /\ [][\A f \in ScratchPresent :
             AudioDelete("voice-clone", f) => resp'.code # 200]_vars

----------------------------------------------------------------------------
(* POST /api/audiobook/generate-from-file (main.py 3440-3549) and the
   temporary files of the two upload handlers.  create_audiobook_from_file
   lives in tts/audiobook.py: it returns a job or raises ValueError. *)

\* tempfile.NamedTemporaryFile(delete=False, suffix=suffix), for one random name
TempDocument == <<"tmp", "1a2b3c4d", ".txt">>

ExtractionResults == {"job", "ValueError"}

from_file_validate(req) ==
    IF Lower(req.output_format) \notin {"wav", "mp3", "m4b"}
    THEN Http(400, <<"Invalid output_format: ", Lower(req.output_format), ". Use 'wav', 'mp3', or 'm4b'">>)
    ELSE IF Lower(req.subtitle_format) \notin {"none", "srt", "vtt"}
    THEN Http(400, <<"Invalid subtitle_format: ", Lower(req.subtitle_format), ". Use 'none', 'srt', or 'vtt'">>)
    ELSE Ok(NULL)

\* the two checks between the creation of the temporary file and the try statement
from_file_late_checks(req) ==
    IF req.max_chars_per_chunk <= 0
    THEN Http(400, <<"max_chars_per_chunk must be > 0">>)
    ELSE IF req.crossfade_ms < 0
    THEN Http(400, <<"crossfade_ms must be >= 0">>)
    ELSE Ok(NULL)

AudiobookGenerateFromFile(req, extraction, bound) ==
    /\ LoopIdle
    /\ IF from_file_validate(req).kind # "ok"
       THEN /\ Respond(TRUE, "audiobook/generate-from-file", from_file_validate(req), 0)
            /\ UNCHANGED <<next_id, book, history, tmp_files>>
       ELSE IF from_file_late_checks(req).kind # "ok"
       THEN /\ Respond(TRUE, "audiobook/generate-from-file", from_file_late_checks(req), 0)
            /\ tmp_files' = tmp_files \cup {TempDocument}
            /\ UNCHANGED <<next_id, book, history>>
       ELSE IF extraction = "ValueError"
       THEN /\ Respond(TRUE, "audiobook/generate-from-file", Http(400, <<"ValueError">>), 0)
            /\ UNCHANGED <<next_id, book, history, tmp_files>>
       ELSE /\ next_id < bound
            /\ next_id' = next_id + 1
            /\ book' = Put(book, next_id + 1, create_audiobook_job(next_id + 1))
            /\ history' = RecordJobHistoryEntry(history,
                              JobEvent(next_id + 1, "audiobook", book'[next_id + 1].status,
                                       NULL, FALSE, "audiobook"))
            /\ Respond(TRUE, "audiobook/generate-from-file", Ok(NULL), next_id + 1)
            /\ UNCHANGED tmp_files
    /\ UNCHANGED <<live, wk, term_order, snapshots, loop, dlVars, voiceVars, adapter_fs, rt,
                   engVars, cloneVars, client_request_id, output_files, alignment, jobs_view>>

UploadNames == {"Mine", "my voice", "Natasha", " "}

NextUploads ==
    \/ \E name \in UploadNames, transcript \in Transcripts, decoded \in BOOLEAN :
          Qwen3UploadVoice(name, "take1", transcript, decoded)
    \/ \E req \in AudiobookRequests, extraction \in ExtractionResults :
          AudiobookGenerateFromFile(req, extraction, MaxUploadJobs)

SpecUploads == Init /\ [][NextUploads]_vars

\* C30: a request that stores its upload in a temporary file leaves no
\* temporary file behind, whatever its outcome: no temp-* file of POST
\* /api/qwen3/voices stays in outputs_dir and no temporary document of POST
\* /api/audiobook/generate-from-file stays in the temporary directory; and a
\* voice upload that fails leaves the user pool as it was.
C30_NoTempFileLeft ==
    /\ []({f \in output_files : StartsWith(f, "temp")} = {} /\ tmp_files = {})
    /\ [][\A name \in UploadNames, transcript \in Transcripts, decoded \in BOOLEAN :
             (Qwen3UploadVoice(name, "take1", transcript, decoded) /\ resp'.code # 200)
                => UNCHANGED voiceVars]_vars

====
